---- MODULE Spec2Model ----
(***************************************************************************)
(* env-vault: the vault engine (init-repo, add, get, share, revoke, edit)  *)
(* over the two artifact backends (the local .env-vault/ of the working    *)
(* directory and the central repos/<name>/ directories).                   *)
(*                                                                         *)
(* Further specifications follow single parts of it: SpecCrash a process   *)
(* that stops between the two saves of a mutation, SpecWrite one call of   *)
(* secureWriteFileSync system call by system call, SpecUnlock unlockVault  *)
(* and the reading commands over identities of either KDF parameter set,   *)
(* SpecModes the modes of directories and files that exist beforehand,     *)
(* SpecNames the commands over spelled vault names, SpecList listRepos     *)
(* over listings of the repos root, SpecDoctor doctor over modes set by    *)
(* hand, SpecRace two commands at once on one vault, read by read and      *)
(* save by save, SpecEdit one edit and its temp file step by step,         *)
(* SpecInit one device's init file write by file write, SpecMigrate the    *)
(* modes of what migrate and clone copy.                                   *)
(*                                                                         *)
(* Cryptography is modelled symbolically: a DEK is a fresh number, a       *)
(* ciphertext names the key it was made with, a sealed box names the       *)
(* keypair it was sealed to.  Random 256-bit values never collide.         *)
(***************************************************************************)
EXTENDS Integers, Sequences, FiniteSets, TLC

\* secretsEnc[b], recipientsJson[b]: the two files of backend b
\* clock[b]:     the number of the next write of vault b (names DEKs and stamps)
\* result:       the command that has just ended and how, until the process exits
\* everWrapped:  history: every wrappedDEK ever stored, per vault and fingerprint
\* revoked:      history: the (vault, fingerprint) pairs revoked and not shared
\*               to again since
\* io:           one call of secureWriteFileSync: where it is, the target file,
\*               its temporary file
\* identity[c]:  private.key, salt, public.key and config.json of device c
\* modes[x][n]:  of device or vault x, whether the directory or file n exists,
\*               its mode, and whether a command made
\*               it or wrote into it
\* procs[p]:     of a command that is followed step by step (two that run
\*               beside each other on one vault, an edit, an init): where it
\*               is, what it has read, the files it has made so far
VARIABLES secretsEnc, recipientsJson, clock, result, everWrapped, revoked, io,
          identity, modes, procs

vars == <<secretsEnc, recipientsJson, clock, result, everWrapped, revoked, io,
          identity, modes, procs>>

----------------------------------------------------------------------------
(* Bounds of the model *)

\* how many writes of vaults complete in one behaviour
MaxClock == 4

----------------------------------------------------------------------------
(* The world: device identities, working directory, vault names, contents *)

\* device identities (one keypair each, created by init)
Ids == {"A", "B", "C"}

\* the devices that run mutating commands; the third device only reads
Callers == {"A", "B"}

\* config.json deviceLabel of each identity
DeviceLabelOf == [i \in Ids |-> IF i = "A" THEN "MacBook" ELSE IF i = "B" THEN "ThinkPad" ELSE ""]

\* the central vault names in use; the working directory is a project named
\* "proj", which is not among them
CentralNames == {"app"}
\* the vault argument of a command: "." or a central name
Args == {"."} \cup CentralNames

\* the backend of the working directory's .env-vault/
Local == "<local>"
Backends == {Local} \cup CentralNames

\* contents (valid UTF-8 text) of the files given to add and init-repo and
\* left behind by the editor
FileText == {"", "A=1"}

Undefined == "<undefined>"
NoTime == 0

----------------------------------------------------------------------------
(* Primitives *)

\* String.prototype.trim
trim(str) == IF str \in {"", "\n", " "} THEN "" ELSE str

\* Buffer.toString('base64') and Buffer.from(s, 'base64')
toBase64(buf) == [b64 |-> buf]
fromBase64(str) == str.b64

\* the public key file of an identity: 32 raw bytes
PublicKeyOf(i) == [id |-> i, len |-> 32]
\* the private key an unlock returns
SecretKeyOf(i) == [sk |-> i]
\* a truncated key, as a user may paste it
ShortKey == [id |-> "A", len |-> 16]

encodePublicKey(publicKey) == toBase64(publicKey)

decodePublicKeyOk(encoded) == fromBase64(encoded).len = 32

decodePublicKey(encoded) == fromBase64(encoded)

\* first 8 bytes of SHA-256 as a number (the order of the hex strings)
getFingerprint(publicKey) == IF publicKey.id = "A" THEN 7 ELSE IF publicKey.id = "B" THEN 2 ELSE 5

sealBox(message, recipientPublicKey) == [to |-> recipientPublicKey.id, msg |-> message]

openBox(sealed, recipientSecretKey) ==
  IF sealed.to = recipientSecretKey.sk THEN [ok |-> TRUE, v |-> sealed.msg]
  ELSE [ok |-> FALSE, v |-> 0]

encrypt(plaintext, key) == [exists |-> TRUE, key |-> key, data |-> plaintext]

IV_LENGTH == 12
AUTH_TAG_LENGTH == 16

\* the file of a ciphertext after damage: kept is the number of bytes left of
\* it, one of them changed when nothing was cut off
damaged(ciphertext, kept) ==
  [exists |-> TRUE, key |-> ciphertext.key, data |-> ciphertext.data, kept |-> kept]

isDamaged(ciphertext) == "kept" \in DOMAIN ciphertext

\* a whole ciphertext holds at least the iv and the tag
byteLength(ciphertext) ==
  IF isDamaged(ciphertext) THEN ciphertext.kept ELSE IV_LENGTH + AUTH_TAG_LENGTH

\* what decrypt throws, "" when it returns: the length is looked at first,
\* then the tag authenticates whole bytes under the key they were sealed with
decryptError(ciphertext, key) ==
  IF byteLength(ciphertext) < IV_LENGTH + AUTH_TAG_LENGTH THEN "Invalid ciphertext: too short"
  ELSE IF isDamaged(ciphertext) \/ ciphertext.key # key
    THEN "Unsupported state or unable to authenticate data"
  ELSE ""

decrypt(ciphertext, key) ==
  IF decryptError(ciphertext, key) = "" THEN [ok |-> TRUE, v |-> ciphertext.data]
  ELSE [ok |-> FALSE, v |-> ""]

----------------------------------------------------------------------------
(* Names of central vaults *)

\* a name is the sequence of its characters
Alnum == {"a", "p", "7"}
NameChars == Alnum \cup {".", "_", "-"}
Whitespace == {" "}
MaxNameLength == 100

\* String.prototype.trim
RECURSIVE trimStart(_)
trimStart(str) ==
  IF str # << >> /\ Head(str) \in Whitespace THEN trimStart(Tail(str)) ELSE str

RECURSIVE trimEnd(_)
trimEnd(str) ==
  IF str # << >> /\ str[Len(str)] \in Whitespace
  THEN trimEnd(SubSeq(str, 1, Len(str) - 1)) ELSE str

trimName(str) == trimEnd(trimStart(str))

\* String.prototype.includes
includes(str, part) ==
  \E i \in 1..(Len(str) - Len(part) + 1) : SubSeq(str, i, i + Len(part) - 1) = part

\* /^[a-zA-Z0-9][a-zA-Z0-9._-]*$/.test
namePattern(str) ==
  /\ str # << >>
  /\ str[1] \in Alnum
  /\ \A i \in 2..Len(str) : str[i] \in NameChars

Rejected(message) == [ok |-> FALSE, v |-> << >>, error |-> message]

\* faulty variant: only the length of the trimmed name is looked at
validateRepoNameAnyChars(name) ==
  LET short == trimName(name)
  IN IF name = << >> THEN Rejected("Repository name is required")
     ELSE IF Len(short) = 0 THEN Rejected("Repository name cannot be empty")
     ELSE IF Len(short) > MaxNameLength THEN Rejected("Repository name too long (max 100 characters)")
     ELSE [ok |-> TRUE, v |-> short, error |-> ""]

\* the validated name, or the error thrown
validateRepoName(name) ==
  LET trimmedName == trimName(name)
  IN IF name = << >> THEN Rejected("Repository name is required")
     ELSE IF Len(trimmedName) = 0 THEN Rejected("Repository name cannot be empty")
     ELSE IF Len(trimmedName) > MaxNameLength THEN Rejected("Repository name too long (max 100 characters)")
     ELSE IF ~namePattern(trimmedName)
       THEN Rejected("Repository name can only contain letters, numbers, hyphens, underscores, and dots (cannot start with a dot)")
     ELSE IF \/ includes(trimmedName, <<".", ".">>)
             \/ includes(trimmedName, <<"/">>)
             \/ includes(trimmedName, <<"\\">>)
       THEN Rejected("Repository name contains invalid characters")
     ELSE [ok |-> TRUE, v |-> trimmedName, error |-> ""]

\* the repos root, a path being the sequence of its segments
REPOS_DIR == << <<"~">>, <<".env-vault">>, <<"repos">> >>

\* the separators path.join splits at
Platforms == {"posix", "win32"}
separators(platform) == IF platform = "win32" THEN {"/", "\\"} ELSE {"/"}

\* the segments of a relative path
RECURSIVE segments(_, _)
segments(str, seps) ==
  IF \A i \in 1..Len(str) : str[i] \notin seps THEN <<str>>
  ELSE LET i == CHOOSE k \in 1..Len(str) :
                  str[k] \in seps /\ \A j \in 1..(k - 1) : str[j] \notin seps
       IN <<SubSeq(str, 1, i - 1)>> \o segments(SubSeq(str, i + 1, Len(str)), seps)

\* path.normalize: "." and empty segments fall out, ".." steps up
RECURSIVE normalize(_, _)
normalize(dir, segs) ==
  IF segs = << >> THEN dir
  ELSE normalize(
         IF Head(segs) \in {<< >>, <<".">>} THEN dir
         ELSE IF Head(segs) = <<".", ".">>
           THEN IF dir = << >> THEN dir ELSE SubSeq(dir, 1, Len(dir) - 1)
         ELSE Append(dir, Head(segs)),
         Tail(segs))

pathJoin(dir, str, platform) == normalize(dir, segments(str, separators(platform)))

\* the directory of a central vault, or the error validateRepoName throws
getRepoDir(repoName, platform) ==
  LET validName == validateRepoName(repoName)
  IN IF validName.ok
     THEN [ok |-> TRUE, v |-> pathJoin(REPOS_DIR, validName.v, platform), error |-> ""]
     ELSE validName

\* how the arguments of the commands are spelled; NotAName stands for every
\* argument that validateRepoName rejects: the commands use a central name
\* only through getRepoDir
NotAName == " "
Spelled(arg) ==
  IF arg = "app" THEN <<"a", "p", "p">>
  ELSE IF arg = "." THEN <<".">>
  ELSE <<" ">>

\* getRepoDir does not throw for the argument
validArg(arg) == validateRepoName(Spelled(arg)).ok

----------------------------------------------------------------------------
(* Artifact store *)

NoSecrets == [exists |-> FALSE, key |-> 0, data |-> ""]
NoRecipients == [exists |-> FALSE, dek_version |-> 0, recipients |-> << >>]

getRepoNameFromDir == "proj"

hasLocalVault == secretsEnc[Local].exists

\* the position of a backend among the backends
BackendNo(b) == IF b = Local THEN 0 ELSE 1

\* crypto.randomBytes(32): a value no earlier call returned, named by the vault
\* it is drawn for and the number of the write that draws it
generateDEK(b) == clock[b] * Cardinality(Backends) + BackendNo(b)

\* new Date().toISOString(): the time of the write of vault b under way; the
\* stamps of one vault are ordered as its writes are
now(b) == clock[b]

repoExists(repoName) == secretsEnc[repoName].exists

\* JSON.stringify of {dek_version, recipients}
RecipientsDoc(recipients, dekVersion) ==
  [exists |-> TRUE, dek_version |-> dekVersion, recipients |-> recipients]

----------------------------------------------------------------------------
(* JavaScript objects keyed by fingerprint: insertion ordered *)

ObjKeys(obj) == {obj[i].fp : i \in 1..Len(obj)}

ObjHas(obj, fp) == fp \in ObjKeys(obj)

ObjGet(obj, fp) == obj[CHOOSE i \in 1..Len(obj) : obj[i].fp = fp]

ObjSet(obj, fp, rec) ==
  IF ObjHas(obj, fp)
  THEN [i \in 1..Len(obj) |-> IF obj[i].fp = fp THEN rec ELSE obj[i]]
  ELSE Append(obj, rec)

Entry(fp, label, publicKey, wrappedDEK, addedAt) ==
  [fp |-> fp, label |-> label, publicKey |-> publicKey,
   wrappedDEK |-> wrappedDEK, addedAt |-> addedAt]

\* no command is running: the shell prompt
Idle == [op |-> "none", status |-> "ok"]

----------------------------------------------------------------------------
(* Identity files and the password-based key derivation *)

SCRYPT_CONFIG == [N |-> 131072, r |-> 8, p |-> 1, keyLength |-> 32]

SCRYPT_CONFIG_LEGACY == [N |-> 16384, r |-> 8, p |-> 1, keyLength |-> 32]

\* master passwords (eight characters or more)
Passwords == {"correct horse", "battery staple"}

\* the random salt of an identity
generateSalt(i) == [of |-> i, len |-> 16]

\* scrypt: equal keys only from equal password, salt and parameters
deriveKey(password, salt, config) == [password |-> password, salt |-> salt, N |-> config.N]

deriveKeyLegacy(password, salt) == deriveKey(password, salt, SCRYPT_CONFIG_LEGACY)

\* private.key, salt, public.key and config.json of a device that has none
NoIdentity ==
  [exists |-> FALSE,
   privateKey |-> [exists |-> FALSE, data |-> SecretKeyOf(""),
                   key |-> deriveKey("", generateSalt(""), SCRYPT_CONFIG)],
   salt |-> generateSalt(""),
   publicKey |-> PublicKeyOf(""), config |-> [deviceLabel |-> "", fingerprint |-> 0]]

\* faulty variant: the private key is encrypted under a key that needs no
\* password to derive
IdentityFilesOpen(i, password, config) ==
  [exists |-> TRUE,
   privateKey |-> encrypt(SecretKeyOf(i), deriveKey("", generateSalt(i), config)),
   salt |-> generateSalt(i),
   publicKey |-> PublicKeyOf(i),
   config |-> [deviceLabel |-> DeviceLabelOf[i],
               fingerprint |-> getFingerprint(PublicKeyOf(i))]]

\* the four files as init writes them, the private key sealed under a key
\* derived with config
IdentityFiles(i, password, config) ==
  [exists |-> TRUE,
   privateKey |-> encrypt(SecretKeyOf(i), deriveKey(password, generateSalt(i), config)),
   salt |-> generateSalt(i),
   publicKey |-> PublicKeyOf(i),
   config |-> [deviceLabel |-> DeviceLabelOf[i],
               fingerprint |-> getFingerprint(PublicKeyOf(i))]]

isInitialized(files) == files.exists

\* every device has run init with this version
Initialized == [c \in Callers |-> IdentityFiles(c, "correct horse", SCRYPT_CONFIG)]

----------------------------------------------------------------------------
(* Modes of the directories and files *)

FILE_MODE == 384

DIR_MODE == 448

\* the directories of a device's ~/.env-vault and of a vault
DirNames == {"~/.env-vault", "identity", "repos", "vault"}

\* the directories and files of a device's ~/.env-vault
HomePaths == {"~/.env-vault", "identity", "repos",
              "private.key", "salt", "public.key", "config.json"}

\* the directory of a vault and its two files
VaultPaths == {"vault", "secrets.enc", "recipients.json"}

\* nothing at a path
NoEntry == [exists |-> FALSE, mode |-> 0, used |-> FALSE]

\* a directory made with mkdir's default mode, a file written with the default
\* mode, by hand or by the version that set no modes; no command has used it yet
LooseDir == [exists |-> TRUE, mode |-> 493, used |-> FALSE]
LooseFile == [exists |-> TRUE, mode |-> 420, used |-> FALSE]

\* a path after secureCreateDir, after secureWriteFileSync
secureCreateDir == [exists |-> TRUE, mode |-> DIR_MODE, used |-> TRUE]
secureWritten == [exists |-> TRUE, mode |-> FILE_MODE, used |-> TRUE]

\* the modes init leaves in the home of a device, before any other command
HomeModes == [n \in HomePaths |-> IF n \in DirNames THEN secureCreateDir ELSE secureWritten]

\* the modes add leaves in a vault it made
VaultModes == [n \in VaultPaths |-> IF n \in DirNames THEN secureCreateDir ELSE secureWritten]

\* every device has run init, no vault has been written
InitialModes ==
  [x \in Callers \cup Backends |->
     IF x \in Callers THEN HomeModes ELSE [n \in VaultPaths |-> NoEntry]]

\* the modes this version leaves for the identities and vaults that exist
ModesOf(ident, secrets) ==
  [x \in Callers \cup Backends |->
     IF x \in Callers
       THEN IF ident[x].exists THEN HomeModes ELSE [n \in HomePaths |-> NoEntry]
     ELSE IF secrets[x].exists THEN VaultModes ELSE [n \in VaultPaths |-> NoEntry]]

----------------------------------------------------------------------------
(* Commands: each handler is an operator from the state and its inputs to   *)
(* its outcome (exit kind, output, files after it); the action commits it.  *)

\* the wrapped DEKs a recipients document holds, per fingerprint
Wrapped(b, recipients) ==
  {[b |-> b, fp |-> recipients[i].fp, box |-> fromBase64(recipients[i].wrappedDEK)] :
     i \in 1..Len(recipients)}

\* no file at a path
NoFile == [exists |-> FALSE, content |-> << >>, mode |-> 0]

\* no call of secureWriteFileSync is under way; the target holds file
NotWriting(file) ==
  [pc |-> "idle", target |-> file, previous |-> file, tempFile |-> NoFile,
   data |-> << >>, mode |-> 0, made |-> FALSE, cleanupErr |-> FALSE]

\* no command is followed step by step
NoProcs == << >>

\* the vaults before the first command
NoVaults ==
  /\ secretsEnc = [b \in Backends |-> NoSecrets]
  /\ recipientsJson = [b \in Backends |-> NoRecipients]
  /\ clock = [b \in Backends |-> 1]
  /\ result = Idle
  /\ everWrapped = {}
  /\ revoked = {}

Init ==
  /\ NoVaults
  /\ io = NotWriting(NoFile)
  /\ procs = NoProcs
  /\ identity = Initialized
  /\ modes = InitialModes

\* a command that ends without writing (process.exit(1), an early return, a throw)
Ends(status) ==
  [status |-> status, out |-> "", secrets |-> secretsEnc, recips |-> recipientsJson,
   clk |-> clock, rev |-> revoked]

\* the two saves of a mutation of backend b: secrets.enc, then recipients.json
Saved(b, out, encryptedSecrets, recipients, dekVersion, rev) ==
  [status |-> "ok", out |-> out,
   secrets |-> [secretsEnc EXCEPT ![b] = encryptedSecrets],
   recips |-> [recipientsJson EXCEPT ![b] = RecipientsDoc(recipients, dekVersion)],
   clk |-> [clock EXCEPT ![b] = @ + 1],
   rev |-> rev]

\* the writes completed so far
RECURSIVE Writes(_, _)
Writes(clk, bs) ==
  IF bs = {} THEN 0
  ELSE LET b == CHOOSE x \in bs : TRUE IN (clk[b] - 1) + Writes(clk, bs \ {b})

\* the modes after a command: secureWriteFileSync sets the mode of each file
\* it writes; only add and init-repo call secureCreateDir on the directory
modesAfter(op, o) ==
  IF o.clk = clock THEN modes
  ELSE LET b == CHOOSE x \in Backends : o.clk[x] # clock[x]
       IN [modes EXCEPT ![b] =
            [n \in VaultPaths |->
               IF op = "rm" THEN NoEntry
               ELSE IF n \in DirNames
                 THEN IF op \in {"add", "init-repo"} THEN secureCreateDir
                      ELSE [modes[b][n] EXCEPT !.used = TRUE]
               ELSE IF n = "secrets.enc"
                 THEN IF o.secrets[b] # secretsEnc[b] THEN secureWritten ELSE modes[b][n]
               ELSE IF o.recips[b] # recipientsJson[b] THEN secureWritten ELSE modes[b][n]]]

\* a command runs to its end in one step, from the shell prompt
Commit(op, o) ==
  /\ result = Idle
  /\ Writes(o.clk, Backends) <= MaxClock
  /\ secretsEnc' = o.secrets
  /\ recipientsJson' = o.recips
  /\ clock' = o.clk
  /\ revoked' = o.rev
  /\ everWrapped' = everWrapped \cup
       UNION {Wrapped(b, o.recips[b].recipients) : b \in Backends}
  /\ result' = [op |-> op, status |-> o.status]
  /\ modes' = modesAfter(op, o)
  /\ UNCHANGED <<io, procs, identity>>

----------------------------------------------------------------------------
(* init-repo *)

Template == "# Add your environment variables here\n"

ownLabel(caller) == IF DeviceLabelOf[caller] # "" THEN DeviceLabelOf[caller] ELSE "Owner"

\* faulty variant: the answer to the overwrite prompt is not looked at
initRepoOutcomeOverwriting(caller, viaArg, text, overwrite, createEmpty, pwOk) ==
  LET envContent == IF viaArg \/ text # "" THEN text ELSE Template
      publicKey == PublicKeyOf(caller)
      fingerprint == getFingerprint(publicKey)
      dek == generateDEK(Local)
      recipients == << Entry(fingerprint, ownLabel(caller), encodePublicKey(publicKey),
                             toBase64(sealBox(dek, publicKey)), now(Local)) >>
  IN
  IF ~viaArg /\ text = "" /\ ~createEmpty THEN Ends("aborted")
  ELSE IF ~pwOk THEN Ends("BadCredentials")
  ELSE Saved(Local, envContent, encrypt(envContent, dek), recipients, 1,
             {r \in revoked : r.b # Local})

initRepoOutcome(caller, viaArg, text, overwrite, createEmpty, pwOk) ==
  LET envContent == IF viaArg \/ text # "" THEN text ELSE Template
      publicKey == PublicKeyOf(caller)
      fingerprint == getFingerprint(publicKey)
      dek == generateDEK(Local)
      recipients == << Entry(fingerprint, ownLabel(caller), encodePublicKey(publicKey),
                             toBase64(sealBox(dek, publicKey)), now(Local)) >>
  IN
  IF hasLocalVault /\ ~overwrite THEN Ends("aborted")
  ELSE IF ~viaArg /\ text = "" /\ ~createEmpty THEN Ends("aborted")
  ELSE IF ~pwOk THEN Ends("BadCredentials")
  ELSE Saved(Local, envContent, encrypt(envContent, dek), recipients, 1,
             {r \in revoked : r.b # Local})

initRepo(caller, viaArg, text, overwrite, createEmpty, pwOk) ==
  /\ result = Idle
  /\ \E o \in {initRepoOutcome(caller, viaArg, text, overwrite, createEmpty, pwOk)} :
       Commit("init-repo", o)

----------------------------------------------------------------------------
(* add (put) *)

\* faulty variant: the loop copies the records and forgets to re-wrap
addRewrapStale(existing, dek) == existing

\* the loop that re-wraps the new DEK for the existing recipients; a stored
\* public key that does not decode throws, and the catch keeps what was built
addRewrap(existing, dek) ==
  LET bad == {i \in 1..Len(existing) : ~decodePublicKeyOk(existing[i].publicKey)}
      n == IF bad = {} THEN Len(existing)
           ELSE (CHOOSE i \in bad : \A j \in bad : i <= j) - 1
  IN [i \in 1..n |->
        [existing[i] EXCEPT !.wrappedDEK =
           toBase64(sealBox(dek, decodePublicKey(existing[i].publicKey)))]]

\* the caller's own record, written after the loop
addOwnEntry(recipients, caller, dek, date) ==
  LET publicKey == PublicKeyOf(caller)
      fingerprint == getFingerprint(publicKey)
      prevAddedAt == IF ObjHas(recipients, fingerprint)
                     THEN ObjGet(recipients, fingerprint).addedAt ELSE NoTime
  IN Entry(fingerprint, ownLabel(caller), encodePublicKey(publicKey),
           toBase64(sealBox(dek, publicKey)),
           IF prevAddedAt # NoTime THEN prevAddedAt ELSE date)

\* whether add writes the local vault
addUseLocal(targetRepo, optLocal) ==
  optLocal \/ targetRepo = "." \/ (hasLocalVault /\ targetRepo = getRepoNameFromDir)

\* faulty variant: the guard only catches a missing value
addNoContentNull(content) == content = Undefined

\* the guard on the content read from the file or stdin
addNoContent(content) == content = "" \/ trim(content) = ""

\* add makes no access check on an existing vault before it writes
addRefusesCaller(existing, fingerprint) == FALSE

\* the backend add writes
addTarget(repoName, optLocal) == IF addUseLocal(repoName, optLocal) THEN Local ELSE repoName

addOutcome(caller, repoName, content, optLocal, proceed, pwOk) ==
  LET useLocal == addUseLocal(repoName, optLocal)
      b == addTarget(repoName, optLocal)
      fingerprint == getFingerprint(PublicKeyOf(caller))
      isUpdate == IF useLocal THEN hasLocalVault ELSE repoExists(repoName)
      dek == generateDEK(b)
      loaded == isUpdate /\ recipientsJson[b].exists
      dekVersion == IF loaded THEN recipientsJson[b].dek_version + 1 ELSE 1
      rewrapped == IF loaded THEN addRewrap(recipientsJson[b].recipients, dek) ELSE << >>
      own == addOwnEntry(rewrapped, caller, dek, now(b))
      recipients == ObjSet(rewrapped, fingerprint, own)
  IN
  IF ~proceed THEN Ends("aborted")
  ELSE IF addNoContent(content) THEN Ends("NoContent")
  ELSE IF ~pwOk THEN Ends("BadCredentials")
  ELSE IF ~useLocal /\ ~validArg(repoName) THEN Ends("InvalidName")
  ELSE IF loaded /\ addRefusesCaller(recipientsJson[b].recipients, fingerprint)
       THEN Ends("NoAccess")
  ELSE Saved(b, content, encrypt(content, dek), recipients, dekVersion, revoked)

add(caller, repoName, content, optLocal, proceed, pwOk) ==
  /\ result = Idle
  /\ \E o \in {addOutcome(caller, repoName, content, optLocal, proceed, pwOk)} :
       Commit("add", o)

----------------------------------------------------------------------------
(* get *)

\* faulty variant: the record is not looked up first, and a missing record
\* surfaces as a failed unwrap
readFilesNoLookup(encryptedSecrets, doc, caller) ==
  LET recipients == doc.recipients
      fingerprint == getFingerprint(PublicKeyOf(caller))
  IN
  IF ~doc.exists THEN [status |-> "NotFound", out |-> ""]
  ELSE IF ~ObjHas(recipients, fingerprint) THEN [status |-> "Integrity", out |-> ""]
  ELSE LET dek == openBox(fromBase64(ObjGet(recipients, fingerprint).wrappedDEK),
                          SecretKeyOf(caller))
           decrypted == decrypt(encryptedSecrets, dek.v)
       IN IF ~dek.ok \/ ~encryptedSecrets.exists \/ ~decrypted.ok
          THEN [status |-> "Integrity", out |-> ""]
          ELSE [status |-> "ok", out |-> decrypted.v]

\* locate the caller's record, unwrap the DEK, decrypt the payload
readFiles(encryptedSecrets, doc, caller) ==
  LET recipients == doc.recipients
      fingerprint == getFingerprint(PublicKeyOf(caller))
      recipientData == ObjGet(recipients, fingerprint)
      dek == openBox(fromBase64(recipientData.wrappedDEK), SecretKeyOf(caller))
      decrypted == decrypt(encryptedSecrets, dek.v)
  IN
  IF ~doc.exists THEN [status |-> "NotFound", out |-> ""]
  ELSE IF ~ObjHas(recipients, fingerprint) THEN [status |-> "NoAccess", out |-> ""]
  ELSE IF ~dek.ok THEN [status |-> "Integrity", out |-> ""]
  ELSE IF ~encryptedSecrets.exists THEN [status |-> "NotFound", out |-> ""]
  ELSE IF ~decrypted.ok THEN [status |-> "Integrity", out |-> ""]
  ELSE [status |-> "ok", out |-> decrypted.v]

\* the same on the files of backend b as they are now
readVault(b, caller) == readFiles(secretsEnc[b], recipientsJson[b], caller)

\* get resolves its backend from the argument and the working directory
getUseLocal(localExists, repoName, optLocal) == optLocal \/ repoName = "." \/ localExists

\* get on the given files: exit kind and the content it prints
getFrom(secrets, recips, caller, repoName, optLocal, pwOk) ==
  LET localExists == secrets[Local].exists
      useLocal == getUseLocal(localExists, repoName, optLocal)
      b == IF useLocal THEN Local ELSE repoName
  IN
  IF useLocal /\ ~localExists THEN [status |-> "NotFound", out |-> ""]
  ELSE IF ~useLocal /\ ~secrets[repoName].exists THEN [status |-> "NotFound", out |-> ""]
  ELSE IF ~pwOk THEN [status |-> "BadCredentials", out |-> ""]
  ELSE readFiles(secrets[b], recips[b], caller)

getOutcome(caller, repoName, optLocal, pwOk) ==
  LET r == getFrom(secretsEnc, recipientsJson, caller, repoName, optLocal, pwOk)
  IN [Ends(r.status) EXCEPT !.out = r.out]

get(caller, repoName, optLocal, pwOk) ==
  /\ result = Idle
  /\ \E o \in {getOutcome(caller, repoName, optLocal, pwOk)} :
       Commit("get", o)

----------------------------------------------------------------------------
(* share *)

shareIsLocal(repoName) ==
  repoName = "." \/ (hasLocalVault /\ repoName = getRepoNameFromDir)

\* the label asked for when none is given: the prompt's default
shareLabel(label, recipientFingerprint) ==
  IF label # "" THEN label ELSE "Device"

\* faulty variant: share draws a new DEK instead of using the unwrapped one
shareDekNew(opened) == generateDEK(Local)

\* the DEK share wraps for the new recipient
shareDek(opened) == opened.v

\* the backend share writes
shareTarget(repoName) == IF shareIsLocal(repoName) THEN Local ELSE repoName

shareOutcome(caller, repoName, pubkeyBase64, label, pwOk) ==
  LET isLocal == shareIsLocal(repoName)
      b == shareTarget(repoName)
      recipientPubKey == decodePublicKey(pubkeyBase64)
      recipientFingerprint == getFingerprint(recipientPubKey)
      myFingerprint == getFingerprint(PublicKeyOf(caller))
      recipients == recipientsJson[b].recipients
      opened == openBox(fromBase64(ObjGet(recipients, myFingerprint).wrappedDEK),
                        SecretKeyOf(caller))
      entry == Entry(recipientFingerprint, shareLabel(label, recipientFingerprint),
                     pubkeyBase64, toBase64(sealBox(shareDek(opened), recipientPubKey)),
                     now(b))
  IN
  IF isLocal /\ ~hasLocalVault THEN Ends("NotFound")
  ELSE IF ~isLocal /\ ~validArg(repoName) THEN Ends("InvalidName")
  ELSE IF ~isLocal /\ ~repoExists(repoName) THEN Ends("NotFound")
  ELSE IF ~decodePublicKeyOk(pubkeyBase64) THEN Ends("InvalidPublicKey")
  ELSE IF ~pwOk THEN Ends("BadCredentials")
  ELSE IF ~recipientsJson[b].exists THEN Ends("NotFound")
  ELSE IF ObjHas(recipients, recipientFingerprint) THEN Ends("AlreadyShared")
  ELSE IF ~ObjHas(recipients, myFingerprint) THEN Ends("NoAccess")
  ELSE IF ~opened.ok THEN Ends("Integrity")
  ELSE [Ends("ok") EXCEPT
          !.recips = [recipientsJson EXCEPT ![b] =
             RecipientsDoc(ObjSet(recipients, recipientFingerprint, entry),
                           recipientsJson[b].dek_version)],
          !.clk = [clock EXCEPT ![b] = @ + 1],
          !.rev = {r \in revoked : ~(r.b = b /\ r.fp = recipientFingerprint)}]

share(caller, repoName, pubkeyBase64, label, pwOk) ==
  /\ result = Idle
  /\ \E o \in {shareOutcome(caller, repoName, pubkeyBase64, label, pwOk)} :
       Commit("share", o)

----------------------------------------------------------------------------
(* revoke *)

\* faulty variant: the revoked record is dropped, the others keep their old wrap
revokeRecipientsStale(recipients, fingerprint, newDEK) ==
  SelectSeq(recipients, LAMBDA e : e.fp # fingerprint)

\* the records revoke writes: every record but the revoked one, re-wrapped
revokeRecipients(recipients, fingerprint, newDEK) ==
  LET kept == SelectSeq(recipients, LAMBDA e : e.fp # fingerprint)
  IN [i \in 1..Len(kept) |->
        Entry(kept[i].fp, Undefined, kept[i].publicKey,
              toBase64(sealBox(newDEK, decodePublicKey(kept[i].publicKey))), NoTime)]

\* the DEK revoke encrypts and wraps with
\* faulty variant: the payload is encrypted again under the key it had
revokeDekReuse(oldDEK, fresh) == oldDEK

revokeDek(oldDEK, fresh) == fresh

\* faulty variant: the caller's own record is looked up before the two checks
\* on the fingerprint
revokeRefusalAccessFirst(recipients, myFingerprint, fingerprint) ==
  IF ~ObjHas(recipients, myFingerprint) THEN "NoAccess"
  ELSE IF fingerprint = myFingerprint THEN "SelfRevoke"
  ELSE IF ~ObjHas(recipients, fingerprint) THEN "NotARecipient"
  ELSE "none"

\* faulty variant: the check against revoking oneself is missing
revokeRefusalNoSelf(recipients, myFingerprint, fingerprint) ==
  IF ~ObjHas(recipients, fingerprint) THEN "NotARecipient"
  ELSE IF ~ObjHas(recipients, myFingerprint) THEN "NoAccess"
  ELSE "none"

\* the three checks revoke makes on the loaded recipients, in their order
revokeRefusal(recipients, myFingerprint, fingerprint) ==
  IF fingerprint = myFingerprint THEN "SelfRevoke"
  ELSE IF ~ObjHas(recipients, fingerprint) THEN "NotARecipient"
  ELSE IF ~ObjHas(recipients, myFingerprint) THEN "NoAccess"
  ELSE "none"

revokeOutcome(caller, repoName, fingerprint, confirm, pwOk) ==
  LET b == repoName
      myFingerprint == getFingerprint(PublicKeyOf(caller))
      recipients == recipientsJson[b].recipients
      oldDEK == openBox(fromBase64(ObjGet(recipients, myFingerprint).wrappedDEK),
                        SecretKeyOf(caller))
      decryptedSecrets == decrypt(secretsEnc[b], oldDEK.v)
      newDEK == revokeDek(oldDEK.v, generateDEK(b))
  IN
  IF ~validArg(repoName) THEN Ends("InvalidName")
  ELSE IF ~repoExists(repoName) THEN Ends("NotFound")
  ELSE IF ~pwOk THEN Ends("BadCredentials")
  ELSE IF ~recipientsJson[b].exists THEN Ends("NotFound")
  ELSE IF revokeRefusal(recipients, myFingerprint, fingerprint) # "none"
       THEN Ends(revokeRefusal(recipients, myFingerprint, fingerprint))
  ELSE IF ~confirm THEN Ends("aborted")
  ELSE IF ~oldDEK.ok THEN Ends("Integrity")
  ELSE IF ~decryptedSecrets.ok THEN Ends("Integrity")
  ELSE IF \E i \in 1..Len(recipients) :
            recipients[i].fp # fingerprint /\ ~decodePublicKeyOk(recipients[i].publicKey)
       THEN Ends("InvalidPublicKey")
  ELSE Saved(b, "", encrypt(decryptedSecrets.v, newDEK),
             revokeRecipients(recipients, fingerprint, newDEK),
             recipientsJson[b].dek_version + 1,
             revoked \cup {[b |-> b, fp |-> fingerprint]})

revoke(caller, repoName, fingerprint, confirm, pwOk) ==
  /\ result = Idle
  /\ \E o \in {revokeOutcome(caller, repoName, fingerprint, confirm, pwOk)} :
       Commit("revoke", o)

----------------------------------------------------------------------------
(* edit *)

\* the records edit writes: every record, re-wrapped
editRecipients(recipients, newDEK) ==
  [i \in 1..Len(recipients) |->
     Entry(recipients[i].fp, Undefined, recipients[i].publicKey,
           toBase64(sealBox(newDEK, decodePublicKey(recipients[i].publicKey))), NoTime)]

\* faulty variant: the comparison is lost and edit always rotates
editUnchangedNever(newContent, content) == FALSE

\* the check that ends edit without a write
editUnchanged(newContent, content) == newContent = content

editOutcome(caller, repoName, newContent, editorOk, pwOk) ==
  LET b == repoName
      myFingerprint == getFingerprint(PublicKeyOf(caller))
      recipients == recipientsJson[b].recipients
      dek == openBox(fromBase64(ObjGet(recipients, myFingerprint).wrappedDEK),
                     SecretKeyOf(caller))
      decrypted == decrypt(secretsEnc[b], dek.v)
      content == decrypted.v
      newDEK == generateDEK(b)
  IN
  IF ~validArg(repoName) THEN Ends("InvalidName")
  ELSE IF ~repoExists(repoName) THEN Ends("NotFound")
  ELSE IF ~pwOk THEN Ends("BadCredentials")
  ELSE IF ~recipientsJson[b].exists THEN Ends("NotFound")
  ELSE IF ~ObjHas(recipients, myFingerprint) THEN Ends("NoAccess")
  ELSE IF ~dek.ok THEN Ends("Integrity")
  ELSE IF ~decrypted.ok THEN Ends("Integrity")
  ELSE IF ~editorOk THEN Ends("EditorFailed")
  ELSE IF editUnchanged(newContent, content) THEN Ends("NoChanges")
  ELSE IF \E i \in 1..Len(recipients) : ~decodePublicKeyOk(recipients[i].publicKey)
       THEN Ends("InvalidPublicKey")
  ELSE Saved(b, newContent, encrypt(newContent, newDEK),
             editRecipients(recipients, newDEK),
             recipientsJson[b].dek_version + 1, revoked)

edit(caller, repoName, newContent, editorOk, pwOk) ==
  /\ result = Idle
  /\ \E o \in {editOutcome(caller, repoName, newContent, editorOk, pwOk)} :
       Commit("edit", o)

----------------------------------------------------------------------------
(* The process ends with its exit status; the shell is ready for a command *)

exit ==
  /\ result # Idle
  /\ result' = Idle
  /\ UNCHANGED <<secretsEnc, recipientsJson, clock, everWrapped, revoked, io, procs, identity,
                 modes>>

----------------------------------------------------------------------------
(* Inputs *)

Fingerprints == {getFingerprint(PublicKeyOf(i)) : i \in Ids}
PastedKeys == {encodePublicKey(PublicKeyOf(i)) : i \in Ids} \cup {toBase64(ShortKey)}
Labels == {"Paul"}

\* init-repo is run with a file argument, or without one in a directory where
\* no .env file is found
EnvFiles == {[viaArg |-> TRUE, text |-> "A=1"], [viaArg |-> FALSE, text |-> ""]}

\* what the user types at the prompts of one run: the answer to the yes/no
\* question and whether the password is the right one (at most one goes wrong)
Typed == {[yes |-> TRUE, pw |-> TRUE], [yes |-> FALSE, pw |-> TRUE],
          [yes |-> TRUE, pw |-> FALSE]}

Next ==
  \/ \E c \in Callers, f \in EnvFiles, ow \in BOOLEAN, t \in Typed :
        initRepo(c, f.viaArg, f.text, ow, t.yes, t.pw)
  \/ \E c \in Callers, a \in Args, text \in FileText, ol \in BOOLEAN, t \in Typed :
        add(c, a, text, ol, t.yes, t.pw)
  \/ \E c \in Ids, a \in Args, ol \in BOOLEAN, pw \in BOOLEAN : get(c, a, ol, pw)
  \/ \E c \in Callers, a \in Args, k \in PastedKeys, l \in Labels, pw \in BOOLEAN :
        share(c, a, k, l, pw)
  \/ \E c \in Callers, a \in Args, fp \in Fingerprints, t \in Typed :
        revoke(c, a, fp, t.yes, t.pw)
  \/ \E c \in Callers, a \in Args, text \in FileText, t \in Typed :
        edit(c, a, text, t.yes, t.pw)
  \/ exit

Spec == Init /\ [][Next]_vars

----------------------------------------------------------------------------
(* A process that stops between the two saves of a mutation *)

\* the command line of a process that was stopped; the fields a command does
\* not take hold their defaults
Stopped(op, caller, repoName, content, optLocal, fingerprint) ==
  [op |-> op, status |-> "killed", caller |-> caller, repoName |-> repoName,
   content |-> content, optLocal |-> optLocal, fingerprint |-> fingerprint]

\* the files after saveSecrets returned and before saveRecipients started
Torn(o) == [o EXCEPT !.recips = recipientsJson, !.rev = revoked]

\* a command that is about to make its two saves is stopped after the first
StopsBetween(line, o) ==
  /\ result = Idle
  /\ o.status = "ok"
  /\ o.clk # clock
  /\ Writes(o.clk, Backends) <= MaxClock
  /\ secretsEnc' = Torn(o).secrets
  /\ recipientsJson' = Torn(o).recips
  /\ clock' = o.clk
  /\ revoked' = Torn(o).rev
  /\ modes' = modesAfter(line.op, Torn(o))
  /\ UNCHANGED <<everWrapped, io, procs, identity>>
  /\ result' = line

addStopped(caller, repoName, content, optLocal) ==
  /\ result = Idle
  /\ \E o \in {addOutcome(caller, repoName, content, optLocal, TRUE, TRUE)} :
       StopsBetween(Stopped("add", caller, repoName, content, optLocal, 0), o)

editStopped(caller, repoName, newContent) ==
  /\ result = Idle
  /\ \E o \in {editOutcome(caller, repoName, newContent, TRUE, TRUE)} :
       StopsBetween(Stopped("edit", caller, repoName, newContent, FALSE, 0), o)

revokeStopped(caller, repoName, fingerprint) ==
  /\ result = Idle
  /\ \E o \in {revokeOutcome(caller, repoName, fingerprint, TRUE, TRUE)} :
       StopsBetween(Stopped("revoke", caller, repoName, "", FALSE, fingerprint), o)

\* the same command line, run again on the files as they are now
rerunOutcome(line) ==
  IF line.op = "add"
    THEN addOutcome(line.caller, line.repoName, line.content, line.optLocal, TRUE, TRUE)
  ELSE IF line.op = "edit"
    THEN editOutcome(line.caller, line.repoName, line.content, TRUE, TRUE)
  ELSE revokeOutcome(line.caller, line.repoName, line.fingerprint, TRUE, TRUE)

\* the vault a stopped command was writing
stoppedTarget(line) ==
  IF line.op = "add" THEN addTarget(line.repoName, line.optLocal) ELSE line.repoName

NextCrash ==
  \/ Next
  \/ \E c \in Callers, a \in Args, text \in FileText, ol \in BOOLEAN :
        addStopped(c, a, text, ol)
  \/ \E c \in Callers, a \in Args, text \in FileText : editStopped(c, a, text)
  \/ \E c \in Callers, a \in Args, fp \in Fingerprints : revokeStopped(c, a, fp)

SpecCrash == Init /\ [][NextCrash]_vars

----------------------------------------------------------------------------
(* secureWriteFileSync, one system call at a time *)

\* options.mode of a call: not given, or given
OptionModes == {0, 420}

\* the data of a call
WriteData == {<<1, 2>>, <<3>>}

\* a file left by an earlier version, which wrote with the default mode
OlderFile == [exists |-> TRUE, content |-> <<9>>, mode |-> 420]

File(content, mode) == [exists |-> TRUE, content |-> content, mode |-> mode]

\* the vault engine is not running while one write is followed
OnlyIo ==
  UNCHANGED <<secretsEnc, recipientsJson, clock, result, everWrapped, revoked, identity,
              modes, procs>>

\* the call: mode and the name of the temporary file are chosen
secureWriteFileSync(data, optMode) ==
  /\ io.pc = "idle"
  /\ io' = [pc |-> "writeFileSync", target |-> io.target, previous |-> io.target,
            tempFile |-> NoFile, data |-> data,
            mode |-> IF optMode # 0 THEN optMode ELSE FILE_MODE,
            made |-> FALSE, cleanupErr |-> FALSE]
  /\ OnlyIo

\* fs.writeFileSync(tempFile, data, {mode}): all bytes, or an error after the
\* file was created and n bytes were written, or an error before it was created
writeFileSync(created, n) ==
  /\ io.pc = "writeFileSync"
  /\ n \in 0..Len(io.data)
  /\ io' = IF ~created THEN [io EXCEPT !.pc = "catch"]
           ELSE [io EXCEPT !.tempFile = File(SubSeq(io.data, 1, n), io.mode),
                           !.made = TRUE,
                           !.pc = IF n = Len(io.data) THEN "fsyncSync" ELSE "catch"]
  /\ OnlyIo

\* openSync, fsyncSync, closeSync
fsyncSync(ok) ==
  /\ io.pc = "fsyncSync"
  /\ io' = [io EXCEPT !.pc = IF ok THEN "renameSync" ELSE "catch"]
  /\ OnlyIo

\* fs.renameSync(tempFile, filePath): the target is replaced in one step
renameSync(ok) ==
  /\ io.pc = "renameSync"
  /\ io' = IF ok THEN [io EXCEPT !.target = io.tempFile, !.tempFile = NoFile,
                                 !.pc = "chmodSync"]
           ELSE [io EXCEPT !.pc = "catch"]
  /\ OnlyIo

\* fs.chmodSync(filePath, mode)
chmodSync(ok) ==
  /\ io.pc = "chmodSync"
  /\ io' = IF ok THEN [io EXCEPT !.target.mode = io.mode, !.pc = "returned"]
           ELSE [io EXCEPT !.pc = "catch"]
  /\ OnlyIo

\* faulty variant: the catch block removes nothing
cleanUpNever(tempFile, unlinkOk) == tempFile

\* the catch block: existsSync, then unlinkSync, whose error is ignored
cleanUp(tempFile, unlinkOk) == IF tempFile.exists /\ unlinkOk THEN NoFile ELSE tempFile

\* the catch block, then throw err
catch(unlinkOk) ==
  /\ io.pc = "catch"
  /\ io' = [io EXCEPT !.tempFile = cleanUp(io.tempFile, unlinkOk),
                      !.cleanupErr = io.tempFile.exists /\ ~unlinkOk,
                      !.pc = "thrown"]
  /\ OnlyIo

\* the process stops between two system calls
stops ==
  /\ io.pc \in {"writeFileSync", "fsyncSync", "renameSync", "chmodSync", "catch"}
  /\ io' = [io EXCEPT !.pc = "stopped"]
  /\ OnlyIo

\* the process stops inside writeFileSync, n bytes written
stopsWriting(n) ==
  /\ io.pc = "writeFileSync"
  /\ n \in 0..Len(io.data)
  /\ io' = [io EXCEPT !.tempFile = File(SubSeq(io.data, 1, n), io.mode),
                      !.made = TRUE, !.pc = "stopped"]
  /\ OnlyIo

\* the call is over; the target is what the next call finds
over ==
  /\ io.pc \in {"returned", "thrown", "stopped"}
  /\ io' = NotWriting(io.target)
  /\ OnlyIo

InitWrite ==
  /\ NoVaults
  /\ io \in {NotWriting(NoFile), NotWriting(OlderFile)}
  /\ procs = NoProcs
  /\ identity = Initialized
  /\ modes = InitialModes

NextWrite ==
  \/ \E data \in WriteData, m \in OptionModes : secureWriteFileSync(data, m)
  \/ \E created \in BOOLEAN, n \in 0..2 : writeFileSync(created, n)
  \/ \E ok \in BOOLEAN : fsyncSync(ok)
  \/ \E ok \in BOOLEAN : renameSync(ok)
  \/ \E ok \in BOOLEAN : chmodSync(ok)
  \/ \E unlinkOk \in BOOLEAN : catch(unlinkOk)
  \/ stops
  \/ \E n \in 0..2 : stopsWriting(n)
  \/ over

SpecWrite == InitWrite /\ [][NextWrite]_vars

----------------------------------------------------------------------------
(* unlock, and the commands that read: get with its unlock, recipients *)

\* what unlockVault leaves and prints; derived lists the parameter sets it
\* derived a key with, in order
Unlocked(status, privateKey, advisory, derived, files) ==
  [status |-> status, privateKey |-> privateKey, advisory |-> advisory,
   derived |-> derived, files |-> files]

\* faulty variant: the legacy parameters are tried first
unlockVaultLegacyFirst(files, password) ==
  LET current == decrypt(files.privateKey, deriveKey(password, files.salt, SCRYPT_CONFIG))
      legacy == decrypt(files.privateKey, deriveKeyLegacy(password, files.salt))
      both == <<SCRYPT_CONFIG_LEGACY, SCRYPT_CONFIG>>
  IN
  IF ~isInitialized(files) THEN Unlocked("NotInitialized", SecretKeyOf(""), FALSE, << >>, files)
  ELSE IF legacy.ok THEN Unlocked("ok", legacy.v, TRUE, <<SCRYPT_CONFIG_LEGACY>>, files)
  ELSE IF current.ok THEN Unlocked("ok", current.v, FALSE, both, files)
  ELSE Unlocked("BadCredentials", SecretKeyOf(""), FALSE, both, files)

\* faulty variant: a key that opened under the legacy parameters is sealed
\* again under the current ones
unlockVaultUpgrading(files, password) ==
  LET current == decrypt(files.privateKey, deriveKey(password, files.salt, SCRYPT_CONFIG))
      legacy == decrypt(files.privateKey, deriveKeyLegacy(password, files.salt))
      both == <<SCRYPT_CONFIG, SCRYPT_CONFIG_LEGACY>>
      sealedAgain == encrypt(legacy.v, deriveKey(password, files.salt, SCRYPT_CONFIG))
  IN
  IF ~isInitialized(files) THEN Unlocked("NotInitialized", SecretKeyOf(""), FALSE, << >>, files)
  ELSE IF current.ok THEN Unlocked("ok", current.v, FALSE, <<SCRYPT_CONFIG>>, files)
  ELSE IF legacy.ok
    THEN Unlocked("ok", legacy.v, TRUE, both, [files EXCEPT !.privateKey = sealedAgain])
  ELSE Unlocked("BadCredentials", SecretKeyOf(""), FALSE, both, files)

\* faulty variant: a private.key that is too short to be a ciphertext is
\* reported as damaged instead of as a failed unlock
unlockVaultTelling(files, password) ==
  LET current == decrypt(files.privateKey, deriveKey(password, files.salt, SCRYPT_CONFIG))
      legacy == decrypt(files.privateKey, deriveKeyLegacy(password, files.salt))
      legacyErr == decryptError(files.privateKey, deriveKeyLegacy(password, files.salt))
      both == <<SCRYPT_CONFIG, SCRYPT_CONFIG_LEGACY>>
  IN
  IF ~isInitialized(files) THEN Unlocked("NotInitialized", SecretKeyOf(""), FALSE, << >>, files)
  ELSE IF current.ok THEN Unlocked("ok", current.v, FALSE, <<SCRYPT_CONFIG>>, files)
  ELSE IF legacy.ok THEN Unlocked("ok", legacy.v, TRUE, both, files)
  ELSE IF legacyErr = "Invalid ciphertext: too short"
    THEN Unlocked("Integrity", SecretKeyOf(""), FALSE, both, files)
  ELSE Unlocked("BadCredentials", SecretKeyOf(""), FALSE, both, files)

unlockVault(files, password) ==
  LET current == decrypt(files.privateKey, deriveKey(password, files.salt, SCRYPT_CONFIG))
      legacy == decrypt(files.privateKey, deriveKeyLegacy(password, files.salt))
      both == <<SCRYPT_CONFIG, SCRYPT_CONFIG_LEGACY>>
  IN
  IF ~isInitialized(files) THEN Unlocked("NotInitialized", SecretKeyOf(""), FALSE, << >>, files)
  ELSE IF current.ok THEN Unlocked("ok", current.v, FALSE, <<SCRYPT_CONFIG>>, files)
  ELSE IF legacy.ok THEN Unlocked("ok", legacy.v, TRUE, both, files)
  ELSE Unlocked("BadCredentials", SecretKeyOf(""), FALSE, both, files)

\* a reading command ends: its exit kind, what it printed, the files it leaves
Read(op, caller, status, advisory, derived, files, o) ==
  /\ result = Idle
  /\ result' = [op |-> op, caller |-> caller, status |-> status,
                advisory |-> advisory, derived |-> derived]
  /\ identity' = [identity EXCEPT ![caller] = files]
  /\ secretsEnc' = o.secrets
  /\ recipientsJson' = o.recips
  /\ UNCHANGED <<clock, everWrapped, revoked, io, procs, modes>>

\* unlockVault on its own
unlock(caller, password) ==
  \E u \in {unlockVault(identity[caller], password)} :
    Read("unlock", caller, u.status, u.advisory, u.derived, u.files, Ends(u.status))

\* the exit status of get: process.exit(1) on every failure, 0 at its end
getExitCode(status) == IF status = "ok" THEN 0 ELSE 1

\* get: the vault is looked up, then unlockVault, then the read
getUnlocking(caller, repoName, optLocal, password) ==
  \E u \in {unlockVault(identity[caller], password)} :
    LET found == getOutcome(caller, repoName, optLocal, FALSE).status = "BadCredentials"
        o == getOutcome(caller, repoName, optLocal, u.status = "ok")
    IN IF ~found THEN Read("get", caller, o.status, FALSE, << >>, identity[caller], o)
       ELSE IF u.status # "ok"
         THEN Read("get", caller, u.status, u.advisory, u.derived, u.files, o)
       ELSE Read("get", caller, o.status, u.advisory, u.derived, u.files, o)

\* recipients: how the listing of the records of a vault ends
recipientsStatus(caller, repoName) ==
  LET isLocal == repoName = "." \/ (hasLocalVault /\ repoName = getRepoNameFromDir)
      b == IF isLocal THEN Local ELSE repoName
  IN IF ~isInitialized(identity[caller]) THEN "NotInitialized"
     ELSE IF isLocal /\ ~hasLocalVault THEN "NotFound"
     ELSE IF ~isLocal /\ ~repoExists(repoName) THEN "NotFound"
     ELSE IF ~recipientsJson[b].exists THEN "NotFound"
     ELSE "ok"

\* recipients: lists the records of a vault; no password is asked
listRecipients(caller, repoName) ==
  \E status \in {recipientsStatus(caller, repoName)} :
    Read("recipients", caller, status, FALSE, << >>, identity[caller], Ends(status))

\* how the identity of a device was made: not yet, by this version, or by a
\* version that derived keys with the legacy parameters
\* the bytes left of a private.key (32 bytes sealed): all of them, none, one
\* less than iv and tag, iv and tag alone, all with one changed
Whole == 0 - 1
Keeps == {Whole, 0, IV_LENGTH + AUTH_TAG_LENGTH - 1, IV_LENGTH + AUTH_TAG_LENGTH,
          IV_LENGTH + AUTH_TAG_LENGTH + 32}

IdentityKinds ==
  {[password |-> "", config |-> SCRYPT_CONFIG, kept |-> Whole]} \cup
  [password : Passwords, config : {SCRYPT_CONFIG, SCRYPT_CONFIG_LEGACY}, kept : {Whole}] \cup
  [password : {"correct horse"}, config : {SCRYPT_CONFIG, SCRYPT_CONFIG_LEGACY},
   kept : Keeps \ {Whole}]

\* the files of a device of one kind
filesOf(c, kind) ==
  LET files == IdentityFiles(c, kind.password, kind.config)
  IN IF kind.password = "" THEN NoIdentity
     ELSE IF kind.kept = Whole THEN files
     ELSE [files EXCEPT !.privateKey = damaged(files.privateKey, kind.kept)]

IdentityCases ==
  {[c \in Callers |-> filesOf(c, k[c])] : k \in [Callers -> IdentityKinds]}

\* the central vault after add by the first of members and share to the
\* others: payload under the key of write 1, wrapped for every member
VaultOf(b, members, payloadKey) ==
  [secrets |-> encrypt("A=1", payloadKey),
   recips |-> RecipientsDoc(
     [n \in 1..Len(members) |->
        Entry(getFingerprint(PublicKeyOf(members[n])), ownLabel(members[n]),
              encodePublicKey(PublicKeyOf(members[n])),
              toBase64(sealBox(1 * Cardinality(Backends) + BackendNo(b),
                               PublicKeyOf(members[n]))), 1)], 1)]

\* no vault; a vault of A whose secrets.enc was emptied; a vault of A; of A
\* and B; of A, an edit stopped between its saves
VaultCases(b) ==
  {[secrets |-> NoSecrets, recips |-> NoRecipients, clk |-> 1]} \cup
  {[secrets |-> damaged(NoSecrets, 0),
    recips |-> VaultOf(b, <<"A">>, 1 * Cardinality(Backends) + BackendNo(b)).recips,
    clk |-> 2]} \cup
  {[secrets |-> VaultOf(b, m, 1 * Cardinality(Backends) + BackendNo(b)).secrets,
    recips |-> VaultOf(b, m, 1 * Cardinality(Backends) + BackendNo(b)).recips,
    clk |-> 2] : m \in {<<"A">>, <<"A", "B">>}} \cup
  {[secrets |-> VaultOf(b, <<"A">>, 2 * Cardinality(Backends) + BackendNo(b)).secrets,
    recips |-> VaultOf(b, <<"A">>, 2 * Cardinality(Backends) + BackendNo(b)).recips,
    clk |-> 3]}

InitUnlock ==
  /\ identity \in IdentityCases
  /\ \E v \in [Backends -> UNION {VaultCases(b) : b \in Backends}] :
       /\ \A b \in Backends : v[b] \in VaultCases(b)
       /\ v[Local].clk = 1
       /\ secretsEnc = [b \in Backends |-> v[b].secrets]
       /\ recipientsJson = [b \in Backends |-> v[b].recips]
       /\ clock = [b \in Backends |-> v[b].clk]
       /\ everWrapped = UNION {Wrapped(b, v[b].recips.recipients) : b \in Backends}
  /\ result = Idle
  /\ revoked = {}
  /\ io = NotWriting(NoFile)
  /\ procs = NoProcs
  /\ modes = ModesOf(identity, secretsEnc)

NextUnlock ==
  \/ \E c \in Callers, p \in Passwords : unlock(c, p)
  \/ \E c \in Callers, a \in Args, ol \in BOOLEAN, p \in Passwords :
        getUnlocking(c, a, ol, p)
  \/ \E c \in Callers, a \in Args : listRecipients(c, a)
  \/ exit

SpecUnlock == InitUnlock /\ [][NextUnlock]_vars

----------------------------------------------------------------------------
(* init, and the commands on homes and vaults that exist with any modes *)

\* faulty variant: init derives the sealing key with the legacy parameters
initLegacy(caller, password, confirm) ==
  /\ result = Idle
  /\ IF isInitialized(identity[caller])
       THEN /\ result' = [op |-> "init", status |-> "AlreadyInitialized"]
            /\ UNCHANGED <<identity, modes>>
     ELSE IF password # confirm
       THEN /\ result' = [op |-> "init", status |-> "Mismatch"]
            /\ UNCHANGED <<identity, modes>>
     ELSE /\ result' = [op |-> "init", status |-> "ok"]
          /\ identity' = [identity EXCEPT ![caller] =
                            IdentityFiles(caller, password, SCRYPT_CONFIG_LEGACY)]
          /\ modes' = [modes EXCEPT ![caller] = HomeModes]
  /\ UNCHANGED <<secretsEnc, recipientsJson, clock, everWrapped, revoked, io, procs>>

\* init: initDirs, then the four identity files
init(caller, password, confirm) ==
  /\ result = Idle
  /\ IF isInitialized(identity[caller])
       THEN /\ result' = [op |-> "init", status |-> "AlreadyInitialized"]
            /\ UNCHANGED <<identity, modes>>
     ELSE IF password # confirm
       THEN /\ result' = [op |-> "init", status |-> "Mismatch"]
            /\ UNCHANGED <<identity, modes>>
     ELSE /\ result' = [op |-> "init", status |-> "ok"]
          /\ identity' = [identity EXCEPT ![caller] =
                            IdentityFiles(caller, password, SCRYPT_CONFIG)]
          /\ modes' = [modes EXCEPT ![caller] = HomeModes]
  /\ UNCHANGED <<secretsEnc, recipientsJson, clock, everWrapped, revoked, io, procs>>

\* a command of the vault engine on a device without an identity
notInitialized(caller) ==
  /\ result = Idle
  /\ ~isInitialized(identity[caller])
  /\ result' = [op |-> "command", status |-> "NotInitialized"]
  /\ UNCHANGED <<secretsEnc, recipientsJson, clock, everWrapped, revoked, io, procs,
                 identity, modes>>

\* the device has run init (the third device always has)
hasIdentity(c) == c \in Callers => isInitialized(identity[c])

\* device A has no identity yet and its ~/.env-vault may have been made by
\* hand; device B shares the vault it wrote with the version that set no modes
InitModes ==
  /\ identity = [Initialized EXCEPT !["A"] = NoIdentity]
  /\ \E b \in CentralNames, home \in {NoEntry, LooseDir} :
       LET v == VaultOf(b, <<"B">>, 1 * Cardinality(Backends) + BackendNo(b))
       IN /\ secretsEnc = [x \in Backends |-> IF x = b THEN v.secrets ELSE NoSecrets]
          /\ recipientsJson = [x \in Backends |-> IF x = b THEN v.recips ELSE NoRecipients]
          /\ clock = [x \in Backends |-> IF x = b THEN 2 ELSE 1]
          /\ everWrapped = Wrapped(b, v.recips.recipients)
          /\ modes = [x \in Callers \cup Backends |->
                        IF x = b THEN [n \in VaultPaths |->
                                         IF n \in DirNames THEN LooseDir ELSE LooseFile]
                        ELSE IF x = "A" THEN [n \in HomePaths |->
                                               IF n = "~/.env-vault" THEN home ELSE NoEntry]
                        ELSE InitialModes[x]]
  /\ result = Idle
  /\ revoked = {}
  /\ io = NotWriting(NoFile)
  /\ procs = NoProcs

NextModes ==
  \/ \E c \in Callers, confirm \in Passwords : init(c, "correct horse", confirm)
  \/ \E c \in Callers : notInitialized(c)
  \/ \E c \in Callers, f \in EnvFiles, ow \in BOOLEAN, t \in Typed :
        hasIdentity(c) /\ initRepo(c, f.viaArg, f.text, ow, t.yes, t.pw)
  \/ \E c \in Callers, a \in Args, text \in FileText, ol \in BOOLEAN, t \in Typed :
        hasIdentity(c) /\ add(c, a, text, ol, t.yes, t.pw)
  \/ \E c \in Ids, a \in Args, ol \in BOOLEAN, pw \in BOOLEAN :
        hasIdentity(c) /\ get(c, a, ol, pw)
  \/ \E c \in Callers, a \in Args, k \in PastedKeys, l \in Labels, pw \in BOOLEAN :
        hasIdentity(c) /\ share(c, a, k, l, pw)
  \/ \E c \in Callers, a \in Args, fp \in Fingerprints, t \in Typed :
        hasIdentity(c) /\ revoke(c, a, fp, t.yes, t.pw)
  \/ \E c \in Callers, a \in Args, text \in FileText, t \in Typed :
        hasIdentity(c) /\ edit(c, a, text, t.yes, t.pw)
  \/ exit

SpecModes == InitModes /\ [][NextModes]_vars

----------------------------------------------------------------------------
(* Commands given a name: a further specification. Every command takes the
   name as the characters typed, and validateRepoName runs on them. *)

MaxCore == 2
MaxNamedWrites == 2

NameAlphabet == {"a", ".", "-", "/", "\\", " ", "!"}

\* short names, and the same filled up with letters to the length limit, one
\* less and one more
Cores == UNION {[1..n -> NameAlphabet] : n \in 0..MaxCore}
Fills == {0, MaxNameLength - MaxCore - 1, MaxNameLength - MaxCore, MaxNameLength - MaxCore + 1}
Spellings == {Spelled("app"), <<" ">> \o Spelled("app"), Spelled("app") \o <<" ">>}
Names == {core \o [i \in 1..f |-> "a"] : core \in Cores, f \in Fills} \cup Spellings

\* the argument as add and share see it: ".", the vault the name addresses,
\* or a name getRepoDir throws for
argOf(name) ==
  IF name = Spelled(".") THEN "."
  ELSE IF validateRepoName(name).ok THEN "app"
  ELSE NotAName

\* the same for revoke, edit and rm, which know no "."
centralArgOf(name) == IF validateRepoName(name).ok THEN "app" ELSE NotAName

\* the names the commands are given: the short names that are rejected, ".",
\* and the spellings of the one central vault
CommandNames ==
  {name \in Cores \cup Spellings : \/ ~validateRepoName(name).ok
                                  \/ validateRepoName(name).v = Spelled("app")}

\* rm: deleteRepo removes the directory of the vault
rmOutcome(caller, repoName, force, confirm) ==
  IF ~isInitialized(identity[caller]) THEN Ends("NotInitialized")
  ELSE IF ~validArg(repoName) THEN Ends("InvalidName")
  ELSE IF ~repoExists(repoName) THEN Ends("NotFound")
  ELSE IF ~force /\ ~confirm THEN Ends("aborted")
  ELSE [status |-> "ok", out |-> "",
        secrets |-> [secretsEnc EXCEPT ![repoName] = NoSecrets],
        recips |-> [recipientsJson EXCEPT ![repoName] = NoRecipients],
        clk |-> [clock EXCEPT ![repoName] = @ + 1],
        rev |-> {r \in revoked : r.b # repoName}]

\* a command given a name runs to its end
CommitNamed(op, name, o) ==
  /\ result = Idle
  /\ Writes(o.clk, Backends) <= MaxNamedWrites
  /\ secretsEnc' = o.secrets
  /\ recipientsJson' = o.recips
  /\ clock' = o.clk
  /\ revoked' = o.rev
  /\ everWrapped' = everWrapped \cup
       UNION {Wrapped(b, o.recips[b].recipients) : b \in Backends}
  /\ result' = [op |-> op, status |-> o.status, name |-> name, out |-> << >>]
  /\ modes' = modesAfter(op, o)
  /\ UNCHANGED <<io, procs, identity>>

\* validateRepoName on its own
validate(name) ==
  /\ result = Idle
  /\ \E validName \in {validateRepoName(name)} :
       result' = [op |-> "validateRepoName",
                  status |-> IF validName.ok THEN "ok" ELSE "InvalidName",
                  name |-> name, out |-> validName.v]
  /\ UNCHANGED <<secretsEnc, recipientsJson, clock, everWrapped, revoked, io, procs,
                 identity, modes>>

addNamed(caller, name, content, pwOk) ==
  /\ result = Idle
  /\ \E o \in {addOutcome(caller, argOf(name), content, FALSE, TRUE, pwOk)} :
       CommitNamed("add", name, o)

shareNamed(caller, name, pubkeyBase64, pwOk) ==
  /\ result = Idle
  /\ \E o \in {shareOutcome(caller, argOf(name), pubkeyBase64, "", pwOk)} :
       CommitNamed("share", name, o)

revokeNamed(caller, name, fingerprint, pwOk) ==
  /\ result = Idle
  /\ \E o \in {revokeOutcome(caller, centralArgOf(name), fingerprint, TRUE, pwOk)} :
       CommitNamed("revoke", name, o)

editNamed(caller, name, newContent, pwOk) ==
  /\ result = Idle
  /\ \E o \in {editOutcome(caller, centralArgOf(name), newContent, TRUE, pwOk)} :
       CommitNamed("edit", name, o)

rm(caller, name, force, confirm) ==
  /\ result = Idle
  /\ \E o \in {rmOutcome(caller, centralArgOf(name), force, confirm)} :
       CommitNamed("rm", name, o)

\* the vault app of A and B and no local vault
InitNames ==
  /\ identity = Initialized
  /\ secretsEnc = [b \in Backends |->
       IF b = Local THEN NoSecrets
       ELSE VaultOf(b, <<"A", "B">>, 1 * Cardinality(Backends) + BackendNo(b)).secrets]
  /\ recipientsJson = [b \in Backends |->
       IF b = Local THEN NoRecipients
       ELSE VaultOf(b, <<"A", "B">>, 1 * Cardinality(Backends) + BackendNo(b)).recips]
  /\ clock = [b \in Backends |-> IF b = Local THEN 1 ELSE 2]
  /\ everWrapped = UNION {Wrapped(b, recipientsJson[b].recipients) : b \in Backends}
  /\ result = Idle
  /\ revoked = {}
  /\ io = NotWriting(NoFile)
  /\ procs = NoProcs
  /\ modes = ModesOf(identity, secretsEnc)

NextNames ==
  \/ \E name \in Names : validate(name)
  \/ \E name \in CommandNames, text \in FileText, pw \in BOOLEAN : addNamed("A", name, text, pw)
  \/ \E name \in CommandNames, k \in PastedKeys, pw \in BOOLEAN : shareNamed("A", name, k, pw)
  \/ \E name \in CommandNames, fp \in Fingerprints, pw \in BOOLEAN :
        revokeNamed("A", name, fp, pw)
  \/ \E name \in CommandNames, text \in FileText, pw \in BOOLEAN :
        editNamed("A", name, text, pw)
  \/ \E name \in CommandNames, force \in BOOLEAN, confirm \in BOOLEAN :
        rm("A", name, force, confirm)
  \/ exit

SpecNames == InitNames /\ [][NextNames]_vars

----------------------------------------------------------------------------
(* listRepos: a further specification, over the listings of the repos root *)

\* what a name in the repos root can be: nothing, a file, a symbolic link to
\* nothing, a directory, a directory that holds secrets.enc
EntryKinds == {"none", "file", "brokenLink", "dir", "vault"}
EntryNames == {Spelled("app"), <<".", "a">>, <<"a", ".", "a">>}

\* the repos root: missing, or its entries
Roots ==
  {[exists |-> FALSE, entries |-> [n \in EntryNames |-> "none"]]} \cup
  [exists : {TRUE}, entries : [EntryNames -> EntryKinds]]

readdirSync(root) == {n \in EntryNames : root.entries[n] # "none"}

\* fs.statSync follows links and throws when there is nothing behind one
statSyncThrows(root, n) == root.entries[n] = "brokenLink"

isDirectory(root, n) == root.entries[n] \in {"dir", "vault"}

\* the names listRepos returns, or the throw of statSync
listRepos(root) ==
  IF ~root.exists THEN [ok |-> TRUE, v |-> {}]
  ELSE IF \E n \in readdirSync(root) : statSyncThrows(root, n)
    THEN [ok |-> FALSE, v |-> {}]
  ELSE [ok |-> TRUE,
        v |-> {n \in readdirSync(root) :
                 isDirectory(root, n) /\ root.entries[n] = "vault"}]

\* listRepos is called on the root
listReposCalled ==
  /\ result.op = "none"
  /\ \E repos \in {listRepos(result.root)} :
       result' = [op |-> "listRepos", status |-> IF repos.ok THEN "ok" ELSE "Error",
                  root |-> result.root, out |-> repos.v]
  /\ UNCHANGED <<secretsEnc, recipientsJson, clock, everWrapped, revoked, io, procs,
                 identity, modes>>

InitList ==
  /\ secretsEnc = [b \in Backends |-> NoSecrets]
  /\ recipientsJson = [b \in Backends |-> NoRecipients]
  /\ clock = [b \in Backends |-> 1]
  /\ everWrapped = {}
  /\ revoked = {}
  /\ io = NotWriting(NoFile)
  /\ procs = NoProcs
  /\ identity = Initialized
  /\ modes = InitialModes
  /\ \E root \in Roots : result = [op |-> "none", status |-> "ok", root |-> root]

NextList == listReposCalled

SpecList == InitList /\ [][NextList]_vars

----------------------------------------------------------------------------
(* doctor: a further specification, from homes and local vaults whose modes
   were set by hand *)

\* mode & 0o077: the bits of group and others
groupAndOthers(fileMode) == fileMode % 64

\* the bits of a mode, numbered from others-execute (0) to owner-read (8)
RECURSIVE power2(_)
power2(i) == IF i = 0 THEN 1 ELSE 2 * power2(i - 1)
bitsOf(fileMode) == {i \in 0..8 : (fileMode \div power2(i)) % 2 = 1}

checkPermissions(entry) ==
  IF ~entry.exists THEN [secure |-> TRUE, exists |-> FALSE]
  ELSE [secure |-> groupAndOthers(entry.mode) = 0, exists |-> TRUE]

\* faulty variant: the bits of others are cleared, every other bit stays
fixPermissionsOthersOnly(entry, isDir) ==
  IF entry.exists THEN [entry EXCEPT !.mode = @ - (@ % 8)] ELSE entry

\* chmodSync to the mode of its kind, when the path exists
fixPermissions(entry, isDir) ==
  IF entry.exists THEN [entry EXCEPT !.mode = IF isDir THEN DIR_MODE ELSE FILE_MODE]
  ELSE entry

\* one path of the check: a path that is not secure is fixed under --fix
doctorPath(entry, isDir, fix) ==
  IF ~checkPermissions(entry).secure /\ checkPermissions(entry).exists /\ fix
  THEN fixPermissions(entry, isDir) ELSE entry

\* the paths that are reported and not fixed
doctorIssues(x, names, fix) ==
  {n \in names : ~checkPermissions(modes[x][n]).secure /\ ~fix}

\* the paths that are fixed: fixedCount is their number
doctorFixed(x, names, fix) ==
  {n \in names : ~checkPermissions(modes[x][n]).secure /\ fix}

\* doctor: the three directories and four files of the home, then the local
\* vault when there is one; it returns its issues and its fixedCount
doctor(caller, fix) ==
  /\ result = Idle
  /\ IF ~isInitialized(identity[caller])
       THEN /\ result' = [op |-> "doctor", status |-> "NotInitialized"]
            /\ UNCHANGED modes
     ELSE /\ modes' =
               [x \in Callers \cup Backends |->
                  IF x = caller
                    THEN [n \in HomePaths |-> doctorPath(modes[x][n], n \in DirNames, fix)]
                  ELSE IF x = Local /\ hasLocalVault
                    THEN [n \in VaultPaths |-> doctorPath(modes[x][n], n \in DirNames, fix)]
                  ELSE modes[x]]
          /\ result' =
               [op |-> "doctor",
                status |-> IF doctorIssues(caller, HomePaths, fix) # {}
                              \/ (hasLocalVault /\ doctorIssues(Local, VaultPaths, fix) # {})
                           THEN "issues"
                           ELSE IF doctorFixed(caller, HomePaths, fix) # {}
                              \/ (hasLocalVault /\ doctorFixed(Local, VaultPaths, fix) # {})
                           THEN "fixed" ELSE "ok"]
  /\ UNCHANGED <<secretsEnc, recipientsJson, clock, everWrapped, revoked, io, procs, identity>>

\* modes a directory or a file can have been given
DirModeChoices == {DIR_MODE, 360, 493}
FileModeChoices == {FILE_MODE, 288, 420}

ByHand(fileMode) == [exists |-> TRUE, mode |-> fileMode, used |-> FALSE]

\* device A with the modes of identity, private.key and config.json set by
\* hand, config.json possibly missing; a local vault of A or none
InitDoctor ==
  /\ identity = Initialized
  /\ recipientsJson \in
       {[b \in Backends |-> NoRecipients],
        [b \in Backends |-> IF b = Local THEN VaultOf(Local, <<"A">>, 2).recips
                            ELSE NoRecipients]}
  /\ secretsEnc = [b \in Backends |->
                     IF recipientsJson[b].exists THEN VaultOf(Local, <<"A">>, 2).secrets
                     ELSE NoSecrets]
  /\ clock = [b \in Backends |-> IF recipientsJson[b].exists THEN 2 ELSE 1]
  /\ everWrapped = UNION {Wrapped(b, recipientsJson[b].recipients) : b \in Backends}
  /\ revoked = {}
  /\ result = Idle
  /\ io = NotWriting(NoFile)
  /\ procs = NoProcs
  /\ \E d \in DirModeChoices, k \in FileModeChoices,
        c \in {NoEntry} \cup {ByHand(m) : m \in FileModeChoices},
        ld \in DirModeChoices, ls \in FileModeChoices :
       modes = [x \in Callers \cup Backends |->
                  IF x = "A"
                    THEN [n \in HomePaths |->
                            IF n = "identity" THEN ByHand(d)
                            ELSE IF n = "private.key" THEN ByHand(k)
                            ELSE IF n = "config.json" THEN c
                            ELSE HomeModes[n]]
                  ELSE IF x = Local /\ recipientsJson[Local].exists
                    THEN [n \in VaultPaths |->
                            IF n \in DirNames THEN ByHand(ld)
                            ELSE IF n = "secrets.enc" THEN ByHand(ls)
                            ELSE VaultModes[n]]
                  ELSE ModesOf(identity, secretsEnc)[x]]

NextDoctor ==
  \/ \E c \in Callers, fix \in BOOLEAN : doctor(c, fix)
  \/ exit

SpecDoctor == InitDoctor /\ [][NextDoctor]_vars

----------------------------------------------------------------------------
(* Two commands at once on one central vault *)

\* the vault both commands work on, and the two processes
RaceVault == "app"
Procs == {"p1", "p2"}
ProcNo(p) == IF p = "p1" THEN 1 ELSE 2

\* the DEK a process draws: random bytes, so no two processes draw the same
generateDEKBy(p) == 100 + ProcNo(p)

\* a command line: the content of add and edit, the fingerprint of revoke, the
\* public key of share
CommandLine(op, caller, content, fingerprint, pubkeyBase64) ==
  [op |-> op, caller |-> caller, content |-> content, fingerprint |-> fingerprint,
   pubkeyBase64 |-> pubkeyBase64]

\* the key of the third device, as share is given it
ThirdKey == encodePublicKey(PublicKeyOf("C"))

\* the command lines, with the password right and every prompt accepted; a
\* field the command does not take holds a value it never reads
CommandLines ==
  {CommandLine("add", c, "B=2", 0, ThirdKey) : c \in Callers}
  \cup {CommandLine("edit", c, "C=3", 0, ThirdKey) : c \in Callers}
  \cup {CommandLine("revoke", c, "", getFingerprint(PublicKeyOf(o)), ThirdKey) :
          c \in Callers, o \in Callers}
  \cup {CommandLine("share", c, "", 0, ThirdKey) : c \in Callers}
  \cup {CommandLine("get", c, "", 0, ThirdKey) : c \in Callers}

\* a process that has passed repoExists and unlockVault and has read no file
\* of the vault yet
Started(line) ==
  [pc |-> "start", line |-> line, recips |-> NoRecipients, secrets |-> NoSecrets,
   early |-> FALSE, wrote |-> FALSE, status |-> "running", out |-> ""]

\* the exit a command takes on the recipients it loaded, "none" when it goes on
\* the public key share is given
pastedKey(line) == decodePublicKey(line.pubkeyBase64)

refusalBy(pr) ==
  LET recipients == pr.recips.recipients
      myFingerprint == getFingerprint(PublicKeyOf(pr.line.caller))
      opened == openBox(fromBase64(ObjGet(recipients, myFingerprint).wrappedDEK),
                        SecretKeyOf(pr.line.caller))
  IN
  IF pr.line.op = "add" THEN "none"
  ELSE IF ~pr.recips.exists THEN "NotFound"
  ELSE IF pr.line.op = "share"
          /\ ObjHas(recipients, getFingerprint(pastedKey(pr.line)))
       THEN "AlreadyShared"
  ELSE IF pr.line.op = "revoke"
          /\ revokeRefusal(recipients, myFingerprint, pr.line.fingerprint) # "none"
       THEN revokeRefusal(recipients, myFingerprint, pr.line.fingerprint)
  ELSE IF ~ObjHas(recipients, myFingerprint) THEN "NoAccess"
  ELSE IF ~opened.ok THEN "Integrity"
  ELSE "none"

\* what the command makes of the files it has read: its exit, what it prints,
\* and the two files it is going to save
planBy(p) ==
  LET pr == procs[p]
      caller == pr.line.caller
      recipients == pr.recips.recipients
      myFingerprint == getFingerprint(PublicKeyOf(caller))
      opened == openBox(fromBase64(ObjGet(recipients, myFingerprint).wrappedDEK),
                        SecretKeyOf(caller))
      decrypted == decrypt(pr.secrets, opened.v)
      newDEK == generateDEKBy(p)
      rewrapped == IF pr.recips.exists THEN addRewrap(recipients, newDEK) ELSE << >>
      own == addOwnEntry(rewrapped, caller, newDEK, now(RaceVault))
      recipientPubKey == pastedKey(pr.line)
      entry == Entry(getFingerprint(recipientPubKey),
                     shareLabel("", getFingerprint(recipientPubKey)),
                     pr.line.pubkeyBase64,
                     toBase64(sealBox(shareDek(opened), recipientPubKey)),
                     now(RaceVault))
      Plan(out, encryptedSecrets, newRecipients, dekVersion) ==
        [status |-> "ok", out |-> out, secrets |-> encryptedSecrets,
         recips |-> RecipientsDoc(newRecipients, dekVersion)]
      Fails(status) ==
        [status |-> status, out |-> "", secrets |-> pr.secrets, recips |-> pr.recips]
  IN
  IF refusalBy(pr) # "none" THEN Fails(refusalBy(pr))
  ELSE IF pr.line.op = "add"
    THEN Plan(pr.line.content, encrypt(pr.line.content, newDEK),
              ObjSet(rewrapped, myFingerprint, own),
              IF pr.recips.exists THEN pr.recips.dek_version + 1 ELSE 1)
  ELSE IF pr.line.op = "share"
    THEN Plan("", pr.secrets,
              ObjSet(recipients, getFingerprint(recipientPubKey), entry),
              pr.recips.dek_version)
  ELSE IF ~pr.secrets.exists THEN Fails("NotFound")
  ELSE IF ~decrypted.ok THEN Fails("Integrity")
  ELSE IF pr.line.op = "get" THEN [Fails("ok") EXCEPT !.out = decrypted.v]
  ELSE IF pr.line.op = "revoke"
    THEN Plan("", encrypt(decrypted.v, revokeDek(opened.v, newDEK)),
              revokeRecipients(recipients, pr.line.fingerprint, newDEK),
              pr.recips.dek_version + 1)
  ELSE IF editUnchanged(pr.line.content, decrypted.v) THEN Fails("NoChanges")
  ELSE Plan(pr.line.content, encrypt(pr.line.content, newDEK),
            editRecipients(recipients, newDEK), pr.recips.dek_version + 1)

\* what no step of the two processes changes
OnlyRace == UNCHANGED <<result, io, identity, modes>>

\* loadRecipients: the process reads recipients.json
loadRecipientsBy(p) ==
  /\ procs[p].pc = "start"
  /\ procs' = [procs EXCEPT ![p] =
                 [@ EXCEPT !.pc = "loaded", !.recips = recipientsJson[RaceVault],
                           !.early = \A q \in Procs : ~procs[q].wrote]]
  /\ UNCHANGED <<secretsEnc, recipientsJson, clock, everWrapped, revoked>>
  /\ OnlyRace

\* loadSecrets: get, edit and revoke read secrets.enc after recipients.json
loadSecretsBy(p) ==
  /\ procs[p].pc = "loaded"
  /\ procs[p].line.op \in {"get", "edit", "revoke"}
  /\ refusalBy(procs[p]) = "none"
  /\ procs' = [procs EXCEPT ![p] =
                 [@ EXCEPT !.pc = "decrypting", !.secrets = secretsEnc[RaceVault]]]
  /\ UNCHANGED <<secretsEnc, recipientsJson, clock, everWrapped, revoked>>
  /\ OnlyRace

\* the process has read what its command reads
hasRead(pr) ==
  \/ pr.pc = "loaded" /\ (pr.line.op \in {"add", "share"} \/ refusalBy(pr) # "none")
  \/ pr.pc = "decrypting"

\* the command ends without a write: an exit, a return, or the output of get
endsBy(p) ==
  /\ hasRead(procs[p])
  /\ planBy(p).status # "ok" \/ procs[p].line.op = "get"
  /\ procs' = [procs EXCEPT ![p] =
                 [@ EXCEPT !.pc = "done", !.status = planBy(p).status,
                           !.out = planBy(p).out]]
  /\ UNCHANGED <<secretsEnc, recipientsJson, clock, everWrapped, revoked>>
  /\ OnlyRace

\* saveSecrets: the rename of secrets.enc, the first write of add, edit and
\* revoke
saveSecretsBy(p) ==
  /\ hasRead(procs[p])
  /\ procs[p].line.op \in {"add", "edit", "revoke"}
  /\ planBy(p).status = "ok"
  /\ secretsEnc' = [secretsEnc EXCEPT ![RaceVault] = planBy(p).secrets]
  /\ procs' = [procs EXCEPT ![p] = [@ EXCEPT !.pc = "savedSecrets", !.wrote = TRUE]]
  /\ UNCHANGED <<recipientsJson, clock, everWrapped, revoked>>
  /\ OnlyRace

\* saveRecipients: the rename of recipients.json, the last write of a mutation
\* and the only one of share
saveRecipientsBy(p) ==
  /\ \/ procs[p].pc = "savedSecrets"
     \/ hasRead(procs[p]) /\ procs[p].line.op = "share" /\ planBy(p).status = "ok"
  /\ recipientsJson' = [recipientsJson EXCEPT ![RaceVault] = planBy(p).recips]
  /\ clock' = [clock EXCEPT ![RaceVault] = @ + 1]
  /\ everWrapped' = everWrapped \cup Wrapped(RaceVault, planBy(p).recips.recipients)
  /\ revoked' =
       IF procs[p].line.op = "revoke"
         THEN revoked \cup {[b |-> RaceVault, fp |-> procs[p].line.fingerprint]}
       ELSE IF procs[p].line.op = "share"
         THEN {r \in revoked : ~(r.b = RaceVault
                                  /\ r.fp = getFingerprint(pastedKey(procs[p].line)))}
       ELSE revoked
  /\ procs' = [procs EXCEPT ![p] =
                 [@ EXCEPT !.pc = "done", !.wrote = TRUE, !.status = "ok",
                           !.out = planBy(p).out]]
  /\ UNCHANGED secretsEnc
  /\ OnlyRace

\* vault app of A and B, and two commands that have just been started
InitRace ==
  /\ identity = Initialized
  /\ secretsEnc = [b \in Backends |->
       IF b = Local THEN NoSecrets
       ELSE VaultOf(b, <<"A", "B">>, 1 * Cardinality(Backends) + BackendNo(b)).secrets]
  /\ recipientsJson = [b \in Backends |->
       IF b = Local THEN NoRecipients
       ELSE VaultOf(b, <<"A", "B">>, 1 * Cardinality(Backends) + BackendNo(b)).recips]
  /\ clock = [b \in Backends |-> IF b = Local THEN 1 ELSE 2]
  /\ everWrapped = UNION {Wrapped(b, recipientsJson[b].recipients) : b \in Backends}
  /\ result = Idle
  /\ revoked = {}
  /\ io = NotWriting(NoFile)
  /\ procs \in [Procs -> {Started(line) : line \in CommandLines}]
  /\ modes = ModesOf(identity, secretsEnc)

NextRace ==
  \/ \E p \in Procs : loadRecipientsBy(p)
  \/ \E p \in Procs : loadSecretsBy(p)
  \/ \E p \in Procs : endsBy(p)
  \/ \E p \in Procs : saveSecretsBy(p)
  \/ \E p \in Procs : saveRecipientsBy(p)

SpecRace == InitRace /\ [][NextRace]_vars

----------------------------------------------------------------------------
(* edit, one step at a time: a further specification, of its temp file *)

\* values of EDITOR (or VISUAL), as characters
Editors == {<<"v", "i">>, <<"v", "i", ";", "x">>, <<"$", "e">>}

\* the characters edit rejects an editor for ("backquote" stands for the
\* backquote character, which a string of this language cannot hold)
ShellMeta == {";", "&", "|", "backquote", "$"}

editorRejected(editor) == \E i \in 1..Len(editor) : editor[i] \in ShellMeta

\* the contents an editor leaves in the file
EditedTexts == {"A=1", "B=2"}

\* no temp file; the temp file as edit writes it
NoTempFile == [exists |-> FALSE, content |-> "", mode |-> 0]
TempFile(content) == [exists |-> TRUE, content |-> content, mode |-> FILE_MODE]

\* secureDelete: overwrite with random bytes and unlink; when either throws,
\* unlink again; when that throws too, a warning, and the file stays
secureDelete(file, writeOk, unlinkOk, unlinkAgainOk) ==
  IF ~file.exists THEN [file |-> file, warned |-> FALSE]
  ELSE IF (writeOk /\ unlinkOk) \/ unlinkAgainOk
    THEN [file |-> NoTempFile, warned |-> FALSE]
  ELSE [file |-> [file EXCEPT !.content = IF writeOk THEN "<random>" ELSE @],
        warned |-> TRUE]

\* where an edit is, its command line and environment, its temp file
Editing(pc, caller, repoName, editor, tempFile, warned) ==
  [edit |-> [pc |-> pc, caller |-> caller, repoName |-> repoName, editor |-> editor,
             tempFile |-> tempFile, warned |-> warned]]

NotEditing == Editing("none", "", "", << >>, NoTempFile, FALSE)

\* how edit ends before it writes the temp file, "" when it writes it
editRefusal(caller, repoName, pwOk) ==
  LET status == editOutcome(caller, repoName, "", FALSE, pwOk).status
  IN IF status = "EditorFailed" THEN "" ELSE status

\* edit ends on one of its checks, before any temp file
editRefused(caller, repoName, pwOk) ==
  /\ result = Idle
  /\ procs.edit.pc \in {"none", "ended"}
  /\ editRefusal(caller, repoName, pwOk) # ""
  /\ result' = [op |-> "edit", status |-> editRefusal(caller, repoName, pwOk)]
  /\ procs' = Editing("ended", caller, repoName, << >>, NoTempFile, FALSE)
  /\ UNCHANGED <<secretsEnc, recipientsJson, clock, everWrapped, revoked, io, identity,
                 modes>>

\* edit has decrypted the content and writes it to a new temp file
editWritesTemp(caller, repoName, editor) ==
  /\ result = Idle
  /\ procs.edit.pc \in {"none", "ended"}
  /\ editRefusal(caller, repoName, TRUE) = ""
  /\ procs' = Editing("written", caller, repoName, editor,
                      TempFile(readVault(repoName, caller).out), FALSE)
  /\ UNCHANGED <<secretsEnc, recipientsJson, clock, result, everWrapped, revoked, io,
                 identity, modes>>

\* the test of the editor: process.exit(1) ends the process inside the try,
\* and no finally block runs
editTestsEditor ==
  /\ procs.edit.pc = "written"
  /\ IF editorRejected(procs.edit.editor)
       THEN /\ result' = [op |-> "edit", status |-> "EditorRejected"]
            /\ procs' = [procs EXCEPT !.edit.pc = "ended"]
       ELSE /\ procs' = [procs EXCEPT !.edit.pc = "spawned"]
            /\ UNCHANGED result
  /\ UNCHANGED <<secretsEnc, recipientsJson, clock, everWrapped, revoked, io, identity,
                 modes>>

\* the editor exits (or could not be spawned): edit rejects, returns or
\* saves, and its finally block deletes the temp file
editorExits(exitOk, newContent, writeOk, unlinkOk, unlinkAgainOk) ==
  /\ procs.edit.pc = "spawned"
  /\ \E o \in {editOutcome(procs.edit.caller, procs.edit.repoName, newContent,
                           exitOk, TRUE)} :
       /\ Writes(o.clk, Backends) <= MaxClock
       /\ secretsEnc' = o.secrets
       /\ recipientsJson' = o.recips
       /\ clock' = o.clk
       /\ revoked' = o.rev
       /\ everWrapped' = everWrapped \cup
            UNION {Wrapped(b, o.recips[b].recipients) : b \in Backends}
       /\ modes' = modesAfter("edit", o)
       /\ result' = [op |-> "edit", status |-> o.status]
  /\ \E d \in {secureDelete([procs.edit.tempFile EXCEPT
                               !.content = IF exitOk THEN newContent ELSE @],
                            writeOk, unlinkOk, unlinkAgainOk)} :
       procs' = [procs EXCEPT !.edit.pc = "ended", !.edit.tempFile = d.file,
                              !.edit.warned = d.warned]
  /\ UNCHANGED <<io, identity>>

\* a central vault of A, or of A and B, and no edit under way
InitEdit ==
  /\ identity = Initialized
  /\ \E members \in {<<"A">>, <<"A", "B">>} :
       /\ secretsEnc = [b \in Backends |->
            IF b = Local THEN NoSecrets
            ELSE VaultOf(b, members, 1 * Cardinality(Backends) + BackendNo(b)).secrets]
       /\ recipientsJson = [b \in Backends |->
            IF b = Local THEN NoRecipients
            ELSE VaultOf(b, members, 1 * Cardinality(Backends) + BackendNo(b)).recips]
  /\ clock = [b \in Backends |-> IF b = Local THEN 1 ELSE 2]
  /\ everWrapped = UNION {Wrapped(b, recipientsJson[b].recipients) : b \in Backends}
  /\ result = Idle
  /\ revoked = {}
  /\ io = NotWriting(NoFile)
  /\ procs = NotEditing
  /\ modes = ModesOf(identity, secretsEnc)

NextEdit ==
  \/ \E c \in Callers, a \in Args, pw \in BOOLEAN : editRefused(c, a, pw)
  \/ \E c \in Callers, a \in CentralNames, e \in Editors : editWritesTemp(c, a, e)
  \/ editTestsEditor
  \/ \E exitOk \in BOOLEAN, text \in EditedTexts, w \in BOOLEAN, u \in BOOLEAN,
        ua \in BOOLEAN : editorExits(exitOk, text, w, u, ua)
  \/ exit

SpecEdit == InitEdit /\ [][NextEdit]_vars

----------------------------------------------------------------------------
(* init, one file write at a time: a further specification, of a run of
   init that is stopped between two of its writes and run again *)

MaxRuns == 3

\* the keypair and the salt that the n-th run of init generates
KeypairOfRun == <<"A", "B", "C">>

\* the identity files of one device, none written yet
NoIdentityFiles ==
  [privateKey |-> NoIdentity.privateKey,
   salt |-> [exists |-> FALSE, v |-> NoIdentity.salt],
   publicKey |-> [exists |-> FALSE, v |-> NoIdentity.publicKey],
   config |-> [exists |-> FALSE, v |-> NoIdentity.config]]

\* faulty variant: the private key alone makes a device initialized
isInitializedPrivateOnly(files) == files.privateKey.exists

\* isInitialized over the single files
isInitializedFiles(files) == files.privateKey.exists /\ files.publicKey.exists

\* loadPrivateKey throws when private.key or salt is missing
loadPrivateKeyThrows(files) == ~files.privateKey.exists \/ ~files.salt.exists

\* unlockVault over the single files
unlockVaultFiles(files, password) ==
  LET read == [exists |-> isInitializedFiles(files), privateKey |-> files.privateKey,
               salt |-> files.salt.v, publicKey |-> files.publicKey.v,
               config |-> files.config.v]
  IN IF isInitializedFiles(files) /\ loadPrivateKeyThrows(files)
       THEN Unlocked("Threw", SecretKeyOf(""), FALSE, << >>, read)
     ELSE unlockVault(read, password)

\* where a run of init is, which run it is, its password, the files so far
InitRun(pc, run, password, files) ==
  [init |-> [pc |-> pc, run |-> run, password |-> password, files |-> files]]

\* the device the runs of init are on
InitDevice == "A"

\* the writes of init in their order: each is named by the place init is at
\* before it, and gives the file, its content and the place after it
initWrite(pc, i, password) ==
  LET whole == IdentityFiles(i, password, SCRYPT_CONFIG)
  IN CASE pc = "initDirs" ->
            [name |-> "privateKey", v |-> whole.privateKey, path |-> "private.key",
             then |-> "savePrivateKey"]
       [] pc = "savePrivateKey" ->
            [name |-> "salt", v |-> [exists |-> TRUE, v |-> whole.salt], path |-> "salt",
             then |-> "savePublicKey"]
       [] pc = "savePublicKey" ->
            [name |-> "publicKey", v |-> [exists |-> TRUE, v |-> whole.publicKey],
             path |-> "public.key", then |-> "saveConfig"]
       [] pc = "saveConfig" ->
            [name |-> "config",
             v |-> [exists |-> TRUE,
                    v |-> [whole.config EXCEPT !.deviceLabel = DeviceLabelOf[InitDevice]]],
             path |-> "config.json", then |-> "ended"]

InitPlaces == {"initDirs", "savePrivateKey", "savePublicKey", "saveConfig"}

\* init up to initDirs: refused on an initialized device or on two passwords
\* that differ, else the three directories are made
initBegins(password, confirm) ==
  /\ result = Idle
  /\ procs.init.pc \notin InitPlaces
  /\ IF isInitializedFiles(procs.init.files)
       THEN /\ result' = [op |-> "init", status |-> "AlreadyInitialized"]
            /\ UNCHANGED <<procs, modes>>
     ELSE IF password # confirm
       THEN /\ result' = [op |-> "init", status |-> "Mismatch"]
            /\ UNCHANGED <<procs, modes>>
     ELSE /\ procs.init.run < MaxRuns
          /\ procs' = InitRun("initDirs", procs.init.run + 1, password, procs.init.files)
          /\ modes' = [modes EXCEPT ![InitDevice] =
                         [n \in HomePaths |-> IF n \in DirNames THEN secureCreateDir ELSE @[n]]]
          /\ UNCHANGED result
  /\ UNCHANGED <<secretsEnc, recipientsJson, clock, everWrapped, revoked, io, identity>>

\* the next write of init; after the last one init reports success
initWrites ==
  /\ procs.init.pc \in InitPlaces
  /\ \E w \in {initWrite(procs.init.pc, KeypairOfRun[procs.init.run], procs.init.password)} :
       /\ procs' = [procs EXCEPT !.init.pc = w.then, !.init.files[w.name] = w.v]
       /\ modes' = [modes EXCEPT ![InitDevice][w.path] = secureWritten]
       /\ result' = IF w.then = "ended" THEN [op |-> "init", status |-> "ok"] ELSE result
  /\ UNCHANGED <<secretsEnc, recipientsJson, clock, everWrapped, revoked, io, identity>>

\* the process is stopped between two writes
initStops ==
  /\ procs.init.pc \in InitPlaces
  /\ procs' = [procs EXCEPT !.init.pc = "stopped"]
  /\ UNCHANGED <<secretsEnc, recipientsJson, clock, result, everWrapped, revoked, io,
                 identity, modes>>

\* unlockVault, as every command that needs the private key starts
initUnlocks(password) ==
  /\ result = Idle
  /\ procs.init.pc \notin InitPlaces
  /\ result' = [op |-> "unlock", status |-> unlockVaultFiles(procs.init.files, password).status]
  /\ UNCHANGED <<secretsEnc, recipientsJson, clock, everWrapped, revoked, io, identity,
                 modes, procs>>

\* a device on which init has never run, and no vault
InitInit ==
  /\ NoVaults
  /\ identity = [c \in Callers |-> NoIdentity]
  /\ io = NotWriting(NoFile)
  /\ procs = InitRun("none", 0, "", NoIdentityFiles)
  /\ modes = ModesOf(identity, secretsEnc)

NextInit ==
  \/ \E pw \in Passwords, confirm \in Passwords : initBegins(pw, confirm)
  \/ initWrites
  \/ initStops
  \/ \E pw \in Passwords : initUnlocks(pw)
  \/ exit

SpecInit == InitInit /\ [][NextInit]_vars

----------------------------------------------------------------------------
(* migrate and clone: a further specification, of the modes of the vaults
   they copy *)

\* the process umask: 022, 077, 002
Umasks == {18, 63, 2}

\* the number whose bits are the given ones
RECURSIVE modeOfBits(_)
modeOfBits(bits) ==
  IF bits = {} THEN 0
  ELSE LET i == CHOOSE x \in bits : TRUE IN power2(i) + modeOfBits(bits \ {i})

\* mode & ~umask
maskedBy(fileMode, umask) == modeOfBits(bitsOf(fileMode) \ bitsOf(umask))

\* a directory or file made with the given mode by a call that names none
\* of the modes of the vault
Made(fileMode) == [exists |-> TRUE, mode |-> fileMode, used |-> FALSE]

\* fs.mkdirSync(dir, { recursive: true }): a new directory gets 0777 & ~umask,
\* one that exists is left as it is
mkdirSync(entry, umask) == IF entry.exists THEN entry ELSE Made(maskedBy(511, umask))

\* fs.copyFileSync(source, target) behind existsSync(source): the target gets
\* the mode of the source
copyFileSync(source, target) == IF source.exists THEN Made(source.mode) ELSE target

\* fs.cpSync(srcDir, destDir, { recursive: true }): a new directory and every
\* file get the modes of their sources, a directory that exists keeps its own
cpSync(source, target) ==
  [n \in VaultPaths |->
     IF ~source[n].exists THEN target[n]
     ELSE IF n \in DirNames /\ target[n].exists THEN target[n]
     ELSE Made(source[n].mode)]

\* the working tree git makes of the remote: directories 0777 & ~umask,
\* files 0666 & ~umask
checkout(umask) ==
  [n \in VaultPaths |->
     IF n \in DirNames THEN Made(maskedBy(511, umask)) ELSE Made(maskedBy(438, umask))]

\* the vault that the remote holds under repos/, and the remote's config.json
RemoteVault(b) == VaultOf(b, <<"A", "B">>, 1 * Cardinality(Backends) + BackendNo(b))
RemoteConfig == IdentityFiles("B", "correct horse", SCRYPT_CONFIG).config

\* migrate: every central vault that holds secrets.enc is copied into the
\* project directory given for it (here the working directory, or skip), and
\* on request removed from the central vault
migrate(proceed, skip, overwrite, cleanup, umask) ==
  LET centralRepos == {b \in CentralNames : secretsEnc[b].exists}
      copied == {b \in centralRepos :
                   ~skip /\ (modes[Local]["vault"].exists => overwrite)}
  IN
  /\ result = Idle
  /\ IF centralRepos = {} \/ ~proceed \/ copied = {}
       THEN /\ result' = [op |-> "migrate",
                          status |-> IF centralRepos = {} THEN "NoRepos"
                                     ELSE IF ~proceed THEN "aborted" ELSE "skipped"]
            /\ UNCHANGED <<secretsEnc, recipientsJson, clock, everWrapped, modes>>
     ELSE \E b \in copied :
            /\ cleanup => clock[b] <= MaxClock
            /\ secretsEnc' = [secretsEnc EXCEPT ![Local] = secretsEnc[b],
                                                ![b] = IF cleanup THEN NoSecrets ELSE @]
            /\ recipientsJson' =
                 [recipientsJson EXCEPT
                    ![Local] = IF recipientsJson[b].exists THEN recipientsJson[b] ELSE @,
                    ![b] = IF cleanup THEN NoRecipients ELSE @]
            /\ clock' = [clock EXCEPT ![Local] = clock[b],
                                      ![b] = IF cleanup THEN @ + 1 ELSE @]
            /\ everWrapped' = everWrapped \cup Wrapped(Local, recipientsJson[b].recipients)
            /\ modes' =
                 [modes EXCEPT
                    ![Local] = [n \in VaultPaths |->
                                  IF n \in DirNames THEN mkdirSync(modes[Local][n], umask)
                                  ELSE copyFileSync(modes[b][n], modes[Local][n])],
                    ![b] = IF cleanup THEN [n \in VaultPaths |-> NoEntry] ELSE @]
            /\ result' = [op |-> "migrate", status |-> "ok"]
  /\ UNCHANGED <<revoked, io, procs, identity>>

\* clone: the remote is cloned into a temp directory, its vaults are copied
\* into the repos root, its config.json is saved as the device's
clone(caller, overwrite, cloneOk, hasConfig, umask) ==
  /\ result = Idle
  /\ IF isInitialized(identity[caller]) /\ ~overwrite
       THEN /\ result' = [op |-> "clone", status |-> "aborted"]
            /\ UNCHANGED <<secretsEnc, recipientsJson, clock, everWrapped, modes, identity>>
     ELSE IF ~cloneOk
       THEN /\ result' = [op |-> "clone", status |-> "Error"]
            /\ UNCHANGED <<secretsEnc, recipientsJson, clock, everWrapped, modes, identity>>
     ELSE /\ secretsEnc' = [b \in Backends |->
                              IF b \in CentralNames THEN RemoteVault(b).secrets
                              ELSE secretsEnc[b]]
          /\ recipientsJson' = [b \in Backends |->
                                  IF b \in CentralNames THEN RemoteVault(b).recips
                                  ELSE recipientsJson[b]]
          /\ clock' = [b \in Backends |-> IF b \in CentralNames THEN 2 ELSE clock[b]]
          /\ everWrapped' = everWrapped \cup
               UNION {Wrapped(b, RemoteVault(b).recips.recipients) : b \in CentralNames}
          /\ identity' = [identity EXCEPT ![caller].config =
                            IF hasConfig THEN RemoteConfig ELSE @]
          /\ modes' =
               [x \in Callers \cup Backends |->
                  IF x = caller
                    THEN [n \in HomePaths |->
                            IF n \in DirNames THEN secureCreateDir
                            ELSE IF n = "config.json" /\ hasConfig THEN secureWritten
                            ELSE modes[x][n]]
                  ELSE IF x \in CentralNames THEN cpSync(checkout(umask), modes[x])
                  ELSE modes[x]]
          /\ result' = [op |-> "clone", status |-> "ok"]
  /\ UNCHANGED <<revoked, io, procs>>

\* device A has run init, B has not; the central vault exists or not, with
\* modes as add leaves them or set by hand; no local vault
InitMigrate ==
  /\ identity = [Initialized EXCEPT !["B"] = NoIdentity]
  /\ \E there \in BOOLEAN :
       /\ secretsEnc = [b \in Backends |->
            IF b \in CentralNames /\ there THEN RemoteVault(b).secrets ELSE NoSecrets]
       /\ recipientsJson = [b \in Backends |->
            IF b \in CentralNames /\ there THEN RemoteVault(b).recips ELSE NoRecipients]
  /\ clock = [b \in Backends |-> IF secretsEnc[b].exists THEN 2 ELSE 1]
  /\ everWrapped = UNION {Wrapped(b, recipientsJson[b].recipients) : b \in Backends}
  /\ revoked = {}
  /\ result = Idle
  /\ io = NotWriting(NoFile)
  /\ procs = NoProcs
  /\ \E d \in DirModeChoices, f \in FileModeChoices :
       modes = [x \in Callers \cup Backends |->
                  IF x \in CentralNames /\ secretsEnc[x].exists
                    THEN [n \in VaultPaths |->
                            IF n \in DirNames THEN ByHand(d) ELSE ByHand(f)]
                  ELSE ModesOf(identity, secretsEnc)[x]]

NextMigrate ==
  \/ \E proceed \in BOOLEAN, skip \in BOOLEAN, overwrite \in BOOLEAN, cleanup \in BOOLEAN,
        umask \in Umasks : migrate(proceed, skip, overwrite, cleanup, umask)
  \/ \E c \in Callers, overwrite \in BOOLEAN, cloneOk \in BOOLEAN, hasConfig \in BOOLEAN,
        umask \in Umasks : clone(c, overwrite, cloneOk, hasConfig, umask)
  \/ exit

SpecMigrate == InitMigrate /\ [][NextMigrate]_vars

----------------------------------------------------------------------------
(* Properties *)

fpOf(i) == getFingerprint(PublicKeyOf(i))

\* the identities whose fingerprint has a record in a recipients document
MembersOf(doc) == {i \in Ids : ObjHas(doc.recipients, fpOf(i))}

\* no command is running: commands start from here
AtPrompt == result = Idle

\* a command's outcome wrote nothing
WritesNothing(o) == o.secrets = secretsEnc /\ o.recips = recipientsJson

\* C1 (I1): in every state between commands, every recipient record of every
\* vault holds a wrappedDEK that its recipient's private key opens to the DEK
\* under which the vault's current secrets.enc decrypts.
I1 ==
  \A b \in Backends : recipientsJson[b].exists =>
    \A n \in 1..Len(recipientsJson[b].recipients) :
      \E i \in Ids :
        /\ fpOf(i) = recipientsJson[b].recipients[n].fp
        /\ LET opened == openBox(fromBase64(recipientsJson[b].recipients[n].wrappedDEK),
                                 SecretKeyOf(i))
           IN opened.ok /\ decrypt(secretsEnc[b], opened.v).ok

\* a vault with several recipients has just been rotated by add
I1Witness ==
  /\ result = [op |-> "add", status |-> "ok"]
  /\ \E b \in Backends : Len(recipientsJson[b].recipients) >= 2 /\ recipientsJson[b].dek_version >= 2

\* C2 (I2): in every step, the dek_version of an existing vault never decreases,
\* and it strictly increases whenever the payload is replaced (add on an
\* existing vault, edit with a change, revoke, init-repo with overwrite consent).
I2 ==
  [][\A b \in Backends : recipientsJson[b].exists =>
       /\ recipientsJson'[b].dek_version >= recipientsJson[b].dek_version
       /\ (secretsEnc'[b] # secretsEnc[b] =>
             recipientsJson'[b].dek_version > recipientsJson[b].dek_version)]_vars

\* C3: whenever add is started on an existing vault by a caller without a record,
\* it ends with NoAccess and writes neither file.
AddRefusesNonRecipient ==
  AtPrompt => \A c \in Callers, a \in Args, m \in FileText \ {""} :
    LET b == addTarget(a, FALSE)
        o == addOutcome(c, a, m, FALSE, TRUE, TRUE)
    IN (recipientsJson[b].exists /\ c \notin MembersOf(recipientsJson[b]))
         => o.status = "NoAccess" /\ WritesNothing(o)

\* C4: a successful revoke of R by C on a vault with version k, recipients S and
\* plaintext m leaves version k+1, exactly the recipients S \ {R}, and every
\* remaining member reads m from the vault.
RevokePost ==
  AtPrompt => \A c \in Callers, a \in Args, fp \in Fingerprints :
    LET o == revokeOutcome(c, a, fp, TRUE, TRUE)
        before == recipientsJson[a]
        after == o.recips[a]
        m == readVault(a, c)
    IN o.status = "ok" =>
         /\ m.status = "ok"
         /\ after.dek_version = before.dek_version + 1
         /\ ObjKeys(after.recipients) = ObjKeys(before.recipients) \ {fp}
         /\ Len(after.recipients) = Len(before.recipients) - 1
         /\ \A i \in MembersOf(after) : readFiles(o.secrets[a], after, i) = m

\* a revoke has completed on a vault that keeps two members
RevokeWitness ==
  /\ result = [op |-> "revoke", status |-> "ok"]
  /\ \E b \in Backends : Cardinality(MembersOf(recipientsJson[b])) >= 2
                         /\ \E r \in revoked : r.b = b

\* C5: once R is revoked from a vault, and until the vault is shared to R's key
\* again, no wrapped DEK that was ever stored for R in that vault opens with R's
\* private key to a DEK that decrypts the vault's current secrets.enc.
RevokedStaysOut ==
  \A r \in revoked : \A w \in everWrapped : \A i \in Ids :
    (w.b = r.b /\ w.fp = r.fp /\ fpOf(i) = r.fp) =>
      LET opened == openBox(w.box, SecretKeyOf(i))
      IN ~(opened.ok /\ decrypt(secretsEnc[r.b], opened.v).ok)

\* C6: share of a new key X by a recipient succeeds, appends exactly one record,
\* for X, and changes nothing else: secrets.enc, dek_version and every earlier
\* record stay as they were, so X and every earlier recipient read the same
\* plaintext as before; share of a key that already has a record writes nothing.
SharePost ==
  AtPrompt => \A c \in Callers, a \in Args, k \in PastedKeys, l \in Labels :
    LET b == shareTarget(a)
        o == shareOutcome(c, a, k, l, TRUE)
        before == recipientsJson[b]
        after == o.recips[b]
        X == getFingerprint(decodePublicKey(k))
        m == readVault(b, c)
    IN /\ (before.exists /\ decodePublicKeyOk(k) /\ c \in MembersOf(before)
             /\ ~ObjHas(before.recipients, X)) => o.status = "ok"
       /\ o.status = "ok" =>
            /\ m.status = "ok"
            /\ o.secrets = secretsEnc
            /\ \A b2 \in Backends \ {b} : o.recips[b2] = recipientsJson[b2]
            /\ after.dek_version = before.dek_version
            /\ ~ObjHas(before.recipients, X)
            /\ Len(after.recipients) = Len(before.recipients) + 1
            /\ after.recipients[Len(after.recipients)].fp = X
            /\ \A n \in 1..Len(before.recipients) : after.recipients[n] = before.recipients[n]
            /\ \A i \in MembersOf(after) : readFiles(o.secrets[b], after, i) = m
       /\ (before.exists /\ decodePublicKeyOk(k) /\ ObjHas(before.recipients, X)) =>
            o.status = "AlreadyShared" /\ WritesNothing(o)

\* a share has completed on a vault that already had two recipients
ShareWitness ==
  /\ result = [op |-> "share", status |-> "ok"]
  /\ \E b \in Backends : Cardinality(MembersOf(recipientsJson[b])) >= 3

\* C7: a successful add on an existing vault keeps the label, publicKey and
\* addedAt of every record the vault had, the caller's own included.
AddKeepsRecords ==
  AtPrompt => \A c \in Callers, a \in Args, m \in FileText :
    LET b == addTarget(a, FALSE)
        o == addOutcome(c, a, m, FALSE, TRUE, TRUE)
        before == recipientsJson[b].recipients
        after == o.recips[b].recipients
    IN (recipientsJson[b].exists /\ o.status = "ok") =>
         \A n \in 1..Len(before) :
           /\ ObjHas(after, before[n].fp)
           /\ ObjGet(after, before[n].fp).label = before[n].label
           /\ ObjGet(after, before[n].fp).publicKey = before[n].publicKey
           /\ ObjGet(after, before[n].fp).addedAt = before[n].addedAt

\* C8: for every caller, vault argument and content, in every state of the
\* working directory and the central store, a successful add followed by get
\* with the same argument by the same caller prints the content that was added.
GetPutRoundTrip ==
  AtPrompt => \A c \in Callers, a \in Args, m \in FileText :
    LET o == addOutcome(c, a, m, FALSE, TRUE, TRUE)
    IN o.status = "ok" =>
         getFrom(o.secrets, o.recips, c, a, FALSE, TRUE) = [status |-> "ok", out |-> m]

\* C9 as stated: add with empty content succeeds, and a get that follows
\* prints zero bytes.
AddEmptySucceeds ==
  AtPrompt => \A c \in Callers, a \in Args :
    LET o == addOutcome(c, a, "", FALSE, TRUE, TRUE)
    IN /\ o.status = "ok"
       /\ readFiles(o.secrets[addTarget(a, FALSE)], o.recips[addTarget(a, FALSE)], c)
            = [status |-> "ok", out |-> ""]

\* C9 as amended: add with empty content never succeeds, whatever the vault
\* argument, the --local option and the state of the vault: it ends with
\* "No content provided" (or at the declined prompt before it) and writes
\* neither file.
AddEmptyRefused ==
  AtPrompt => \A c \in Callers, a \in Args, ol \in BOOLEAN, t \in Typed :
    LET o == addOutcome(c, a, "", ol, t.yes, t.pw)
    IN /\ o.status = (IF t.yes THEN "NoContent" ELSE "aborted")
       /\ WritesNothing(o)

\* an add with empty content has just ended on an existing vault
AddEmptyWitness ==
  /\ result = [op |-> "add", status |-> "NoContent"]
  /\ \E b \in Backends : secretsEnc[b].exists

\* C10: when the editor leaves the content as it was decrypted, edit ends
\* without writing either file and dek_version is unchanged.
EditNoChange ==
  AtPrompt => \A c \in Callers, a \in Args :
    LET cur == readVault(a, c)
        o == editOutcome(c, a, cur.out, TRUE, TRUE)
    IN (validArg(a) /\ repoExists(a) /\ cur.status = "ok") =>
         /\ o.status = "NoChanges"
         /\ WritesNothing(o)
         /\ o.recips[a].dek_version = recipientsJson[a].dek_version

\* an edit that changed nothing has just ended
EditNoChangeWitness ==
  /\ result = [op |-> "edit", status |-> "NoChanges"]
  /\ \E b \in Backends : recipientsJson[b].dek_version >= 1

\* C11: edit is get followed by put: whenever edit succeeds with a changed
\* content, the vault it leaves has the dek_version, the fingerprints, each
\* record's label, publicKey and addedAt, and the plaintext that add of the
\* same content by the same caller leaves from the same state.
EditIsGetThenPut ==
  AtPrompt => \A c \in Callers, a \in CentralNames, m \in FileText \ {""} :
    LET e == editOutcome(c, a, m, TRUE, TRUE)
        p == addOutcome(c, a, m, FALSE, TRUE, TRUE)
        er == e.recips[a].recipients
        pr == p.recips[a].recipients
    IN e.status = "ok" =>
         /\ p.status = "ok"
         /\ e.recips[a].dek_version = p.recips[a].dek_version
         /\ ObjKeys(er) = ObjKeys(pr)
         /\ \A fp \in ObjKeys(er) :
              /\ ObjGet(er, fp).label = ObjGet(pr, fp).label
              /\ ObjGet(er, fp).publicKey = ObjGet(pr, fp).publicKey
              /\ ObjGet(er, fp).addedAt = ObjGet(pr, fp).addedAt
         /\ readFiles(e.secrets[a], e.recips[a], c) = readFiles(p.secrets[a], p.recips[a], c)

\* C16 (I3): when the caller has no record in the recipients document of the
\* vault a command addresses, get, share of a key not yet present, revoke of a
\* present fingerprint and edit each end with NoAccess and write neither file.
I3 ==
  AtPrompt =>
    /\ \A c \in Ids, a \in Args, ol \in BOOLEAN :
         LET b == IF getUseLocal(hasLocalVault, a, ol) THEN Local ELSE a
             o == getOutcome(c, a, ol, TRUE)
         IN (secretsEnc[b].exists /\ c \notin MembersOf(recipientsJson[b]))
              => o.status = "NoAccess" /\ WritesNothing(o)
    /\ \A c \in Callers, a \in Args, k \in PastedKeys, l \in Labels :
         LET b == shareTarget(a)
             o == shareOutcome(c, a, k, l, TRUE)
         IN (secretsEnc[b].exists /\ decodePublicKeyOk(k)
               /\ ~ObjHas(recipientsJson[b].recipients, getFingerprint(decodePublicKey(k)))
               /\ c \notin MembersOf(recipientsJson[b]))
              => o.status = "NoAccess" /\ WritesNothing(o)
    /\ \A c \in Callers, a \in CentralNames, fp \in Fingerprints, cf \in BOOLEAN :
         LET o == revokeOutcome(c, a, fp, cf, TRUE)
         IN (secretsEnc[a].exists /\ ObjHas(recipientsJson[a].recipients, fp)
               /\ c \notin MembersOf(recipientsJson[a]))
              => o.status = "NoAccess" /\ WritesNothing(o)
    /\ \A c \in Callers, a \in CentralNames, m \in FileText, ed \in BOOLEAN :
         LET o == editOutcome(c, a, m, ed, TRUE)
         IN (secretsEnc[a].exists /\ c \notin MembersOf(recipientsJson[a]))
              => o.status = "NoAccess" /\ WritesNothing(o)

\* a device without a record has just been refused by get on an existing vault
I3Witness ==
  /\ result = [op |-> "get", status |-> "NoAccess"]
  /\ \E b \in Backends : secretsEnc[b].exists /\ MembersOf(recipientsJson[b]) # Ids

I4 ==
  /\ \A b \in Backends : recipientsJson[b].exists => Len(recipientsJson[b].recipients) >= 1
  /\ AtPrompt =>
       /\ \A c \in Callers, f \in EnvFiles :
            LET o == initRepoOutcome(c, f.viaArg, f.text, TRUE, TRUE, TRUE)
            IN o.status = "ok" => c \in MembersOf(o.recips[Local])
       /\ \A c \in Callers, a \in Args, m \in FileText, ol \in BOOLEAN :
            LET o == addOutcome(c, a, m, ol, TRUE, TRUE)
            IN o.status = "ok" => c \in MembersOf(o.recips[addTarget(a, ol)])
       /\ \A c \in Callers, a \in Args, k \in PastedKeys, l \in Labels :
            LET o == shareOutcome(c, a, k, l, TRUE)
            IN o.status = "ok" => c \in MembersOf(o.recips[shareTarget(a)])
       /\ \A c \in Callers, a \in CentralNames, fp \in Fingerprints :
            LET o == revokeOutcome(c, a, fp, TRUE, TRUE)
            IN o.status = "ok" => c \in MembersOf(o.recips[a])
       /\ \A c \in Callers, a \in CentralNames, m \in FileText :
            LET o == editOutcome(c, a, m, TRUE, TRUE)
            IN o.status = "ok" => c \in MembersOf(o.recips[a])

\* a revoke has just left its caller as the only recipient
I4Witness ==
  /\ result = [op |-> "revoke", status |-> "ok"]
  /\ \E r \in revoked : Len(recipientsJson[r.b].recipients) = 1

\* C12: add on an existing vault, edit and revoke save secrets.enc before
\* recipients.json; when the process stops between the two saves, the
\* recipients document is the one from before the command, the payload is under
\* a key no record wraps, and get by every recipient ends with an integrity
\* failure and outputs nothing.
TornReadFails ==
  result.status = "killed" =>
    LET b == stoppedTarget(result)
    IN recipientsJson[b].exists =>
         /\ \A n \in 1..Len(recipientsJson[b].recipients), i \in Ids :
              LET opened == openBox(fromBase64(recipientsJson[b].recipients[n].wrappedDEK),
                                    SecretKeyOf(i))
              IN opened.ok => opened.v # secretsEnc[b].key
         /\ \A i \in MembersOf(recipientsJson[b]) :
              readVault(b, i) = [status |-> "Integrity", out |-> ""]

\* a revoke was stopped between its saves on a vault with several recipients
TornReadFailsWitness ==
  /\ result.status = "killed"
  /\ result.op = "revoke"
  /\ Cardinality(MembersOf(recipientsJson[result.repoName])) >= 2

\* C13: after a mutation by a recipient was stopped between its two saves,
\* running the same command again with the same arguments completes, and every
\* recipient of the vault it leaves can read the payload it leaves.
RerunRecovers ==
  (result.status = "killed" /\ recipientsJson[stoppedTarget(result)].exists
      /\ result.caller \in MembersOf(recipientsJson[stoppedTarget(result)])) =>
    LET b == stoppedTarget(result)
        o == rerunOutcome(result)
    IN /\ o.status = "ok"
       /\ \A i \in MembersOf(o.recips[b]) :
            readFiles(o.secrets[b], o.recips[b], i).status = "ok"

\* a reader of the target finds the file as it was before the call, or the
\* complete data of the call
ReaderSeesWhole ==
  io.pc # "idle" =>
    \/ io.target = io.previous
    \/ io.target.exists /\ io.target.content = io.data

UnlockOrder ==
  AtPrompt => \A c \in Callers, p \in Passwords :
    LET files == identity[c]
        sealed == files.privateKey.key
        u == unlockVault(files, p)
        opens(config) == ~isDamaged(files.privateKey)
                         /\ sealed = deriveKey(p, files.salt, config)
    IN isInitialized(files) =>
         /\ Len(u.derived) >= 1 /\ u.derived[1] = SCRYPT_CONFIG
         /\ Len(u.derived) > 1 <=> ~opens(SCRYPT_CONFIG)
         /\ Len(u.derived) > 1 => u.derived = <<SCRYPT_CONFIG, SCRYPT_CONFIG_LEGACY>>
         /\ u.status = "ok" <=> (opens(SCRYPT_CONFIG) \/ opens(SCRYPT_CONFIG_LEGACY))
         /\ u.status = "ok" => u.privateKey = SecretKeyOf(c)
         /\ u.advisory <=> (~opens(SCRYPT_CONFIG) /\ opens(SCRYPT_CONFIG_LEGACY))

\* an unlock has just succeeded through the legacy parameters
UnlockWitness ==
  /\ result.op = "unlock"
  /\ result.status = "ok"
  /\ result.derived = <<SCRYPT_CONFIG, SCRYPT_CONFIG_LEGACY>>

\* C15 (I5): every directory the commands created or wrote into has mode 0700
\* and every sensitive file they wrote has mode 0600, also when it was there
\* before with a looser mode.
I5 ==
  \A x \in Callers \cup Backends : \A n \in DOMAIN modes[x] :
    modes[x][n].used =>
      modes[x][n].exists /\ modes[x][n].mode = IF n \in DirNames THEN DIR_MODE ELSE FILE_MODE

\* C24: when the local vault already has secrets.enc and the user does not
\* consent to overwrite, init-repo ends as aborted and creates or changes no
\* file of any vault, whatever its other inputs are.
InitRepoDeclined ==
  (AtPrompt /\ hasLocalVault) =>
    \A caller \in Callers, viaArg \in BOOLEAN, text \in FileText,
       createEmpty \in BOOLEAN, pwOk \in BOOLEAN :
      LET o == initRepoOutcome(caller, viaArg, text, FALSE, createEmpty, pwOk)
      IN o.status = "aborted" /\ WritesNothing(o) /\ o.clk = clock
         /\ modesAfter("init-repo", o) = modes

InitRepoDeclinedWitness ==
  /\ hasLocalVault
  /\ result.op = "init-repo" /\ result.status = "aborted"
  /\ secretsEnc[Local].exists /\ recipientsJson[Local].exists

\* C30: after every write of recipients.json, the keys of the recipients
\* mapping stand in the file in ascending fingerprint order, whatever the
\* order in which the recipients were added.
RecipientsSorted ==
  \A b \in Backends : recipientsJson[b].exists =>
    \A i, j \in 1..Len(recipientsJson[b].recipients) :
      i < j => recipientsJson[b].recipients[i].fp < recipientsJson[b].recipients[j].fp

\* what a user sees of unlockVault: the message and the exit status, which the
\* outcome kind and the advisory note stand for
unlockShows(u) == <<u.status, u.advisory>>

\* C21: an unlock that fails because the password is wrong while private.key
\* is whole, and an unlock with the right password that fails because
\* private.key was changed or cut short, show the same message and the same
\* exit status.
UnlockFailuresAlike ==
  \A c \in Callers :
    (isInitialized(identity[c]) /\ ~isDamaged(identity[c].privateKey)) =>
      \A wrong \in Passwords, right \in Passwords, kept \in Keeps \ {Whole} :
        LET cut == [identity[c] EXCEPT !.privateKey = damaged(@, kept)]
        IN (unlockVault(identity[c], wrong).status # "ok"
            /\ unlockVault(identity[c], right).status = "ok") =>
             /\ unlockVault(cut, right).status # "ok"
             /\ unlockShows(unlockVault(cut, right)) = unlockShows(unlockVault(identity[c], wrong))

UnlockFailuresAlikeWitness ==
  /\ result.op = "unlock" /\ result.status = "BadCredentials"
  /\ \E c \in Callers :
       /\ result.caller = c
       /\ isDamaged(identity[c].privateKey)
       /\ byteLength(identity[c].privateKey) < IV_LENGTH + AUTH_TAG_LENGTH
  /\ \E c \in Callers :
       /\ isInitialized(identity[c]) /\ ~isDamaged(identity[c].privateKey)
       /\ \E wrong \in Passwords : unlockVault(identity[c], wrong).status = "BadCredentials"

\* C29: when secrets.enc of the addressed vault is zero bytes long, the
\* existence checks (hasLocalVault, repoExists) say the vault is absent and get
\* ends as not found, as it does when the file is missing, never as corrupted.
ZeroBytesIsAbsent ==
  AtPrompt =>
    \A b \in Backends :
      (secretsEnc[b].exists /\ byteLength(secretsEnc[b]) = 0) =>
        /\ b = Local => ~hasLocalVault
        /\ b # Local => ~repoExists(b)
        /\ \A c \in Callers, pwOk \in BOOLEAN :
             (b # Local => ~hasLocalVault) =>
               getOutcome(c, IF b = Local THEN "." ELSE b, FALSE, pwOk).status = "NotFound"

\* the pattern [A-Za-z0-9][A-Za-z0-9._-]{0,99} without the sequence ".."
matchesPattern(str) ==
  /\ Len(str) \in 1..MaxNameLength
  /\ str[1] \in Alnum
  /\ \A i \in 2..Len(str) : str[i] \in NameChars
  /\ ~includes(str, <<".", ".">>)

\* C23: validateRepoName accepts a name, returning it unchanged, exactly when
\* the name matches the pattern and does not contain ".."; every other string
\* is rejected, also one that matches only after the whitespace around it is
\* removed.
ValidateIsExact ==
  result.op = "validateRepoName" =>
    /\ result.status = "ok" <=> matchesPattern(result.name)
    /\ result.status = "ok" => result.out = result.name

\* a path strictly below a directory
strictlyBelow(path, dir) ==
  Len(path) > Len(dir) /\ SubSeq(path, 1, Len(dir)) = dir

ListIsExact ==
  (result.op = "listRepos" /\ result.status = "ok") =>
    result.out = {n \in EntryNames :
                    /\ result.root.exists
                    /\ result.root.entries[n] = "vault"
                    /\ Head(n) # "."}

\* C27: for every path that doctor --fix changes, the permission bits after
\* the fix are a subset of the bits before it: no bit is added, so a file at
\* 0440 or a directory at 0550 gains no owner-write.
DoctorOnlyRemovesBits ==
  [][result'.op = "doctor" =>
       \A x \in Callers \cup Backends : \A n \in DOMAIN modes[x] :
         modes'[x][n] # modes[x][n] =>
           bitsOf(modes'[x][n].mode) \subseteq bitsOf(modes[x][n].mode)]_vars

\* the commands that write the vault
Mutations == {"add", "share", "revoke", "edit"}

\* C25: two mutating commands on the same vault that both read recipients.json
\* at the same dek_version, before either has written, do not both commit
OneOfTwoCommits ==
  procs # NoProcs =>
    ~(/\ \A p \in Procs : /\ procs[p].line.op \in Mutations
                          /\ procs[p].early
                          /\ procs[p].pc = "done"
                          /\ procs[p].status = "ok"
      /\ procs["p1"].recips.dek_version = procs["p2"].recips.dek_version)

\* the plaintext of the vault before the two commands, and after the mutation
\* of the given command line
PlaintextBefore == "A=1"
PlaintextAfter(line) == IF line.op = "revoke" THEN PlaintextBefore ELSE line.content

\* C26: a get beside one add, edit or revoke of the same vault by another
\* process returns the plaintext of before or of after the mutation; it
\* neither fails nor returns other bytes
GetBesideMutation ==
  procs # NoProcs =>
    \A p \in Procs, q \in Procs :
      (/\ procs[p].line.op = "get"
       /\ procs[q].line.op \in {"add", "edit", "revoke"}
       /\ procs[q].line.fingerprint # getFingerprint(PublicKeyOf(procs[p].line.caller))
       /\ procs[p].pc = "done")
      => /\ procs[p].status = "ok"
         /\ procs[p].out \in {PlaintextBefore, PlaintextAfter(procs[q].line)}

\* the exit statuses a get is to end with
getExitCodeExpected(status) ==
  IF status = "ok" THEN 0
  ELSE IF status = "NoAccess" THEN 1
  ELSE IF status = "Integrity" THEN 2
  ELSE 3

\* C31: get ends with exit status 0 on success, 1 when the caller is no
\* recipient, 2 when the DEK or the payload does not decrypt, 3 when the
\* password does not unlock the identity
GetExitStatuses ==
  (result.op = "get"
   /\ result.status \in {"ok", "NoAccess", "Integrity", "BadCredentials"})
  => getExitCode(result.status) = getExitCodeExpected(result.status)

\* C32: with a local vault in which the caller is a recipient, revoke('.', fp)
\* for a present fingerprint fp other than the caller's removes fp from the
\* local recipients.json and bumps the local dek_version by 1
RevokeDotIsLocal ==
  AtPrompt =>
    \A c \in Callers, fp \in Fingerprints :
      LET recipients == recipientsJson[Local].recipients
          o == revokeOutcome(c, ".", fp, TRUE, TRUE)
      IN (/\ hasLocalVault
          /\ recipientsJson[Local].exists
          /\ ObjHas(recipients, getFingerprint(PublicKeyOf(c)))
          /\ ObjHas(recipients, fp)
          /\ fp # getFingerprint(PublicKeyOf(c)))
         => /\ o.status = "ok"
            /\ ~ObjHas(o.recips[Local].recipients, fp)
            /\ o.recips[Local].dek_version = recipientsJson[Local].dek_version + 1

\* the keys a master password gives with the salt on disk
passwordKeys(files) ==
  {deriveKey(p, files.salt, config) :
     p \in Passwords, config \in {SCRYPT_CONFIG, SCRYPT_CONFIG_LEGACY}}

\* the identity files of a device hold its private key only as the payload of
\* private.key, under a key derived from a master password
privateKeySealed(c) ==
  LET files == identity[c]
  IN isInitialized(files) =>
       /\ files.privateKey.data = SecretKeyOf(c)
       /\ files.privateKey.key \in passwordKeys(files)
       /\ files.salt = generateSalt(c)
       /\ files.publicKey = PublicKeyOf(c)
       /\ DOMAIN files.config = {"deviceLabel", "fingerprint"}

\* the artifacts of a vault hold its DEK only as the message of boxes sealed to
\* the public key of the record they stand in
dekSealed(b) ==
  \A i \in 1..Len(recipientsJson[b].recipients) :
    LET r == recipientsJson[b].recipients[i]
    IN /\ DOMAIN r = {"fp", "label", "publicKey", "wrappedDEK", "addedAt"}
       /\ fromBase64(r.wrappedDEK) =
            sealBox(fromBase64(r.wrappedDEK).msg, decodePublicKey(r.publicKey))
       /\ decodePublicKey(r.publicKey).id \in Ids

\* C33 (I7): no identity file or vault artifact contains the private key or a
\* DEK in the clear: the private key is stored only encrypted under the
\* password-derived key, a DEK only sealed to a recipient's public key
NothingInTheClear ==
  /\ \A c \in Callers : privateKeySealed(c)
  /\ \A b \in Backends : dekSealed(b)

NothingInTheClearWitness ==
  /\ isInitialized(identity["A"])
  /\ \E b \in Backends : /\ Len(recipientsJson[b].recipients) >= 2
                         /\ clock[b] > 2
  /\ result = [op |-> "add", status |-> "ok"]

RevokeKeepsRecordFields ==
  AtPrompt =>
    \A c \in Callers, a \in CentralNames, fp \in Fingerprints :
      LET before == recipientsJson[a].recipients
          o == revokeOutcome(c, a, fp, TRUE, TRUE)
      IN o.status = "ok" =>
           \A i \in 1..Len(before) :
             before[i].fp # fp =>
               LET after == ObjGet(o.recips[a].recipients, before[i].fp)
               IN /\ after.label = before[i].label
                  /\ after.publicKey = before[i].publicKey
                  /\ after.addedAt = before[i].addedAt

\* C36: if, during add on an existing vault, the recipients document cannot be
\* loaded or a stored public key cannot be decoded, add fails and writes
\* nothing; it never goes on with an empty or partial recipient set
AddFailsOnUnreadableRecipients ==
  AtPrompt =>
    \A c \in Callers, a \in Args :
      LET b == addTarget(a, FALSE)
          o == addOutcome(c, a, "A=1", FALSE, TRUE, TRUE)
      IN (/\ secretsEnc[b].exists
          /\ \/ ~recipientsJson[b].exists
             \/ \E i \in 1..Len(recipientsJson[b].recipients) :
                  ~decodePublicKeyOk(recipientsJson[b].recipients[i].publicKey))
         => /\ o.status # "ok"
            /\ WritesNothing(o)

\* C37: whenever edit ends after it has written the decrypted content to its
\* temp file (editor exits 0 with or without changes, exits non-zero or cannot
\* be spawned, or EDITOR is rejected), the temp file no longer exists; stated
\* for the runs in which secureDelete gave no warning
EditLeavesNoTempFile ==
  (DOMAIN procs = {"edit"} /\ procs.edit.pc = "ended" /\ ~procs.edit.warned)
  => ~procs.edit.tempFile.exists

\* C38: in every state reached by stopping init between its file writes
\* (and running it again), if isInitialized() is true then the salt file
\* exists and unlock with the password given to init returns the private
\* key that matches public.key
StoppedInitUnlocks ==
  (DOMAIN procs = {"init"} /\ isInitializedFiles(procs.init.files))
  => /\ procs.init.files.salt.exists
     /\ LET u == unlockVaultFiles(procs.init.files, procs.init.password)
        IN /\ u.status = "ok"
           /\ u.privateKey = SecretKeyOf(procs.init.files.publicKey.v.id)

\* init was stopped twice before any public.key and then once more after
\* public.key and before config.json
StoppedInitUnlocksWitness ==
  /\ DOMAIN procs = {"init"}
  /\ procs.init.pc = "stopped"
  /\ procs.init.run = MaxRuns
  /\ isInitializedFiles(procs.init.files)
  /\ ~procs.init.files.config.exists

\* every path that doctor checks for the device has no group or other bit
DoctorPathsSecure(c) ==
  /\ \A n \in HomePaths : checkPermissions(modes[c][n]).secure
  /\ hasLocalVault => \A n \in VaultPaths : checkPermissions(modes[Local][n]).secure

\* a doctor of the device would report no permission issue and fix nothing
DoctorFindsNothing(c) ==
  \A fix \in BOOLEAN :
    /\ doctorIssues(c, HomePaths, fix) = {} /\ doctorFixed(c, HomePaths, fix) = {}
    /\ hasLocalVault =>
         doctorIssues(Local, VaultPaths, fix) = {} /\ doctorFixed(Local, VaultPaths, fix) = {}
    /\ \A n \in HomePaths : doctorPath(modes[c][n], n \in DirNames, fix) = modes[c][n]
    /\ hasLocalVault =>
         \A n \in VaultPaths : doctorPath(modes[Local][n], n \in DirNames, fix) = modes[Local][n]

VaultIsOwnerOnly(b) ==
  /\ modes[b]["vault"].mode = DIR_MODE
  /\ \A n \in VaultPaths \ DirNames : modes[b][n].mode = FILE_MODE

\* C40: after migrate has moved a central vault into a project, and after
\* clone has imported vaults into the repos root, the resulting vault
\* directory has mode 0700 and its secrets.enc and recipients.json have mode
\* 0600, whatever the umask and the modes of the source files
CopiedVaultIsOwnerOnly ==
  /\ result = [op |-> "migrate", status |-> "ok"] => VaultIsOwnerOnly(Local)
  /\ result = [op |-> "clone", status |-> "ok"] =>
       \A b \in CentralNames : VaultIsOwnerOnly(b)

====
